---- MODULE Spec2Model ----
(***************************************************************************)
(* A model of httpget's HTTP client library (src/http.c) and of its caller *)
(* (src/main.c).                                                           *)
(*                                                                         *)
(* Part I  models the redirect chaser http_simple_request(): one action    *)
(* per iteration of its loop, the peer's answer to each attempt being an   *)
(* input.  C strings are sequences of characters where the code looks      *)
(* inside them (host names, compared with strcasecmp) and TLA+ strings     *)
(* where it only copies or compares them whole.  A char* is a record       *)
(* [mem, val]: the storage it points into and the content stored there.    *)
(*                                                                         *)
(* Part II models the reader of a response body, http_response_read(),     *)
(* over the bytes of the peer's stream: one action per call, the sizes of  *)
(* the segments the socket returns and receive failures being inputs.      *)
(* Specification SpecBody starts where recv_response() has returned.       *)
(***************************************************************************)
EXTENDS Integers, Sequences, FiniteSets, TLC

\* ------------------------------------------------------------- bounds
\* Largest redirect budget a caller passes (besides -1, unlimited).
MaxRedirections == 2
\* Attempts after which the peer is no longer asked (caps the unlimited chase).
MaxAttempts == MaxRedirections + 1
\* Largest resource size a Content-Range header announces.
MaxTotal == 2
\* Width of size_t in bits.
SizeBits == 3

\* ------------------------------------------------------------- values
NULL == "NULL"
NoHost == <<>>
SIZE_MAX == 2 ^ SizeBits - 1
HTTP_URL_SCHEME == "http"

HostA == <<"h", "a">>
HostAUpper == <<"H", "A">>
HostB == <<"h", "b">>
HostNames == {HostA, HostAUpper, HostB}
\* What a read of freed storage may find besides a host name.
Garbage == <<"?">>

NullPtr == [mem |-> "null", val |-> NoHost]

tolower(c) ==
    CASE c = "H" -> "h"
      [] c = "A" -> "a"
      [] c = "B" -> "b"
      [] c = "T" -> "t"
      [] c = "P" -> "p"
      [] c = "C" -> "c"
      [] c = "U" -> "u"
      [] c = "N" -> "n"
      [] c = "K" -> "k"
      [] c = "E" -> "e"
      [] c = "D" -> "d"
      [] c = "L" -> "l"
      [] OTHER -> c

Lower(s) == [k \in DOMAIN s |-> tolower(s[k])]

\* 0 iff the two strings are equal ignoring case.
strcasecmp(a, b) == IF Lower(a) = Lower(b) THEN 0 ELSE 1

HTTP_STATUS_OK(status) == status \div 100 = 2

HTTP_STATUS_REDIRECT_any(status) == status \div 100 >= 2

HTTP_STATUS_REDIRECT(status) == status \div 100 = 3

\* ------------------------------------------------------------- urls
\* What url_alloc() returns for the Location values the peer sends: no host
\* (a path only), the caller's host in another case, another host, with and
\* without a scheme and a port, and a scheme that is not http.
NullUrl == [scheme |-> NULL, host |-> NoHost, port |-> -1, path |-> NULL]

url_struct ==
    { [scheme |-> NULL, host |-> NoHost, port |-> -1, path |-> "/x"],
      [scheme |-> NULL, host |-> HostAUpper, port |-> -1, path |-> "/"],
      [scheme |-> "http", host |-> HostAUpper, port |-> 81, path |-> "/x"],
      [scheme |-> "http", host |-> HostB, port |-> -1, path |-> "/"],
      [scheme |-> NULL, host |-> HostB, port |-> 81, path |-> "/x"],
      [scheme |-> "ftp", host |-> HostB, port |-> -1, path |-> "/"] }

\* ------------------------------------------------------------- requests
Credentials == {NULL, "u:p"}

NoRange == [want_range |-> 0, range_first |-> 0, range_last |-> 0]

RangeRequests ==
    { NoRange }
    \cup
    { [want_range |-> 1, range_first |-> f, range_last |-> l] :
        f \in 0 .. MaxTotal - 1, l \in (0 .. MaxTotal - 1) \cup {SIZE_MAX} }

http_request_info(h, po, c, t, m, rg) ==
    [ host |-> [mem |-> "info", val |-> h], port |-> po,
      command |-> "GET", path |-> "/",
      want_range |-> rg.want_range,
      range_first |-> rg.range_first, range_last |-> rg.range_last,
      max_redirections |-> m, creds |-> c, trusted_location |-> t ]

\* ------------------------------------------------------------- peers
\* The (f, l, t) of a Content-Range header handle_content_range_header() accepts.
ContentRanges ==
    { [ranged |-> 1, range_first |-> f, range_last |-> l, range_total |-> t] :
        f \in 0 .. MaxTotal, l \in 0 .. MaxTotal, t \in 1 .. MaxTotal }

NoContentRange ==
    [ranged |-> 0, range_first |-> 0, range_last |-> 0, range_total |-> 0]

handle_content_range_header(cr) ==
    ~ (cr.range_first > cr.range_last \/ cr.range_last >= cr.range_total)

\* How one attempt goes, as far as the peer and the network decide it: a
\* failure before the status line is parsed (recv_fail: it is not received or
\* does not parse), a failure to receive or handle a header after it
\* (header_fail), a response whose first chunk-size line is bad, a response
\* with any status and Location, or a response with a Content-Range.
\* cands is what socket() and connect() do with each of the addresses
\* getaddrinfo() returns, in order.
Connecting == { <<"ok">>, <<"connect_fail", "socket_fail", "ok">> }

NotConnecting == { <<"connect_fail", "connect_fail">>, <<"socket_fail">> }

Servers ==
    { [kind |-> "resolve_fail", status |-> 0, location |-> NullUrl,
       cr |-> NoContentRange, cands |-> <<>>] }
    \cup
    { [kind |-> "connect_fail", status |-> 0, location |-> NullUrl,
       cr |-> NoContentRange, cands |-> a] : a \in NotConnecting }
    \cup
    { [kind |-> k, status |-> 0, location |-> NullUrl, cr |-> NoContentRange,
       cands |-> a] : k \in {"send_fail", "recv_fail"}, a \in Connecting }
    \cup
    { [kind |-> "header_fail", status |-> st, location |-> NullUrl,
       cr |-> NoContentRange, cands |-> <<"ok">>] : st \in {200, 302} }
    \cup
    { [kind |-> "bad_chunk", status |-> 200, location |-> NullUrl,
       cr |-> NoContentRange, cands |-> <<"ok">>] }
    \cup
    { [kind |-> "ok", status |-> st, location |-> loc, cr |-> NoContentRange,
       cands |-> a] :
        st \in {200, 302}, loc \in url_struct \cup {NullUrl}, a \in Connecting }
    \cup
    { [kind |-> "ok", status |-> st, location |-> NullUrl, cr |-> c,
       cands |-> <<"ok">>] :
        st \in {206, 302},
        c \in {c \in ContentRanges : handle_content_range_header(c)} }

\* ------------------------------------------------------------- state
VARIABLES
    pc,          \* where the caller is: "idle", "loop", "done", "crashed", ...
    info,        \* the caller's struct http_request_info
    i,           \* http_simple_request's copy of it
    url,         \* the Location url_struct http_simple_request retains
    resp,        \* the caller's struct http_response
    ret,         \* what http_simple_request returns
    last_error,  \* the static last_error buffer
    nattempts,   \* history: calls of __http_simple_request so far
    lastreq,     \* history: the request the latest attempt sent in full
    lastsrv,     \* history: how the latest attempt went
    lastret,     \* history: what the latest __http_simple_request returned
    all3xx,      \* history: every attempt so far got a 3xx with a followable Location
    redir,       \* history: the redirect followed last
    live,        \* the open sockets and allocated buffers, and the most there were;
                 \* the reason strings and Location urls allocated and not freed
    bpc,         \* where the reader of a response body is
    conn,        \* the response's struct http_connection: buffer and failed flag
    net,         \* the socket: the bytes the peer still delivers, whether it then
                 \* shuts down, the bytes written to it, and the history of the I/O
    body,        \* the response's chunked, body_size, body_read and chunk_size
    out,         \* history: the bytes http_response_read() handed to the caller
    rd,          \* history: the latest call of http_response_read()
    sawerr,      \* history: an earlier call of http_response_read() returned -1
    peer,        \* history: the body the peer set out to send
    hdr,         \* the status or header line the peer sends and what was made of it
    tx,          \* the strings send_request() passes to send_str(), and how far it is
    hb           \* the header block of the response, how far it is handled, the build

chase_rest ==
    << pc, info, i, url, resp, ret,
       nattempts, lastreq, lastsrv, lastret, all3xx, redir, live >>

chase_vars == << chase_rest, last_error >>

body_vars == << bpc, conn, net, body, out, rd, sawerr, peer, hdr, tx, hb >>

vars == << chase_vars, body_vars >>

NoConnection == [buf_begin |-> 0, buf_end |-> 0, data |-> <<>>, failed |-> FALSE]

\* A connected socket: data are the bytes the peer still delivers, shut is
\* whether it then shuts the connection down, wire the bytes written to the
\* socket.  flushes tells of each flush_buffer() that wrote whether the buffer
\* was full; late tells whether a send() or recv() was issued with
\* conn->failed set.
Socket(data, shut) ==
    [ data |-> data, shut |-> shut, wire |-> <<>>, flushes |-> <<>>,
      late |-> FALSE ]

\* No header block is being handled.  block are the headers of the response
\* as [field, value], k of them handled so far; done is set when the header
\* is parsed; ptr is sizeof(const char *) of the build.
NoBlock == [block |-> <<>>, k |-> 0, done |-> FALSE, ptr |-> 0]

\* No request is being sent.  strs are the strings send_request() passes to
\* send_str(), k of them passed so far; flushed and ret are set by the final
\* flush_buffer(); creds are the bytes of info->creds when auth is set, and
\* inf is the request, its strings as characters and its numbers of type
\* size_t as decimal numerals.
NoSend ==
    [ strs |-> <<>>, k |-> 0, flushed |-> FALSE, ret |-> FALSE,
      auth |-> FALSE, creds |-> <<>>,
      inf |-> [ command |-> <<>>, path |-> <<>>, host |-> <<>>, port |-> -1,
                auth |-> FALSE, creds |-> <<>>, want_range |-> 0,
                range_first |-> <<>>, range_last |-> <<>> ] ]

NoBody == [chunked |-> 0, body_size |-> 0, body_read |-> 0, chunk_size |-> 0]

NoRead ==
    [ any |-> FALSE, len |-> 0, ret |-> 0, from |-> 0, done |-> FALSE,
      chunk |-> 0, pos |-> 0 ]

\* What parse_status() stores: the outcome, resp->version, resp->status,
\* resp->reason and the message it leaves in last_error.
NoStatus ==
    [ok |-> FALSE, version |-> 0, status |-> 0, reason |-> <<>>, err |-> ""]

\* No line was sent or received.  phase is where in the response the line
\* sent is: "status" or "header"; wire is the line with its terminator term,
\* stored and end are what the last recv_line() wrote and how it ended.
NoHeader ==
    [ phase |-> "none", sent |-> <<>>, line |-> <<>>, n |-> 0, ok |-> FALSE,
      calls |-> 0, parsed |-> NoStatus, wire |-> <<>>, term |-> <<>>,
      stored |-> 0, end |-> "ok" ]

NoPeer ==
    [ chunked |-> 0, body_size |-> 0, payload |-> <<>>, wire |-> <<>>,
      shut |-> TRUE, complete |-> FALSE, truncated |-> FALSE,
      malformed |-> FALSE ]

\* No response body is being read.
BodyIdle ==
    /\ bpc = "none"
    /\ conn = NoConnection
    /\ net = Socket(<<>>, TRUE)
    /\ body = NoBody
    /\ out = <<>>
    /\ rd = NoRead
    /\ sawerr = FALSE
    /\ peer = NoPeer
    /\ hdr = NoHeader
    /\ tx = NoSend
    /\ hb = NoBlock

NoResponse ==
    [ sockfd |-> -1, buf |-> FALSE, status |-> 0, reason |-> FALSE,
      ranged |-> 0, range_first |-> 0, range_last |-> 0, range_total |-> 0,
      body_read |-> 0, location |-> NullUrl ]

NoRequest ==
    [ sent |-> FALSE, host |-> NoHost, port |-> -1, path |-> NULL,
      command |-> NULL, auth |-> NULL, range |-> <<>>,
      of |-> NoRange, lines |-> <<>>, flushed |-> FALSE, shut_wr |-> FALSE ]

NoServer ==
    [ kind |-> "none", status |-> 0, location |-> NullUrl, cr |-> NoContentRange,
      cands |-> <<>> ]

\* No socket is open and no buffer allocated, and none has been.
NoneLive ==
    [ socks |-> 0, bufs |-> 0, max_socks |-> 0, max_bufs |-> 0,
      reasons |-> 0, urls |-> 0 ]

NoRedirect ==
    [ n |-> 0, from_host |-> NoHost, to_host |-> NoHost,
      auth_before |-> NULL, trusted |-> FALSE,
      from_port |-> -1, to_port |-> -1, to_path |-> NULL ]

\* ------------------------------------------------------------- the engine
\* The Range header value send_range_header() formats.
send_range_header_closed(first, last) == <<"bytes=", first, "-", last>>

send_range_header(first, last) ==
    IF last # SIZE_MAX THEN <<"bytes=", first, "-", last>>
    ELSE <<"bytes=", first, "-">>

\* send_host_header(): the line, with hv the bytes read through info->host;
\* the suffix is ":port" or empty.
send_host_header(hv, port) ==
    [ line |-> "Host", host |-> hv,
      suffix |-> IF port >= 0 THEN <<":", port>> ELSE <<>> ]

\* ------------------------------------------------------------- base64.c
BASE64_TABLE ==
    << "A", "B", "C", "D", "E", "F", "G", "H", "I", "J", "K", "L", "M",
       "N", "O", "P", "Q", "R", "S", "T", "U", "V", "W", "X", "Y", "Z",
       "a", "b", "c", "d", "e", "f", "g", "h", "i", "j", "k", "l", "m",
       "n", "o", "p", "q", "r", "s", "t", "u", "v", "w", "x", "y", "z",
       "0", "1", "2", "3", "4", "5", "6", "7", "8", "9", "+", "/" >>

\* append(): c is stored at dst[*pos] if that is inside the len bytes of dst,
\* and *pos is advanced in any case.  st is [dst, pos].
append(c, st, len) ==
    [ dst |-> IF st.pos < len THEN st.dst \o <<c>> ELSE st.dst,
      pos |-> st.pos + 1 ]

encode_append_next(c, st, len) ==
    append(BASE64_TABLE[((c + 1) % 64) + 1], st, len)

encode_append(c, st, len) == append(BASE64_TABLE[c + 1], st, len)

\* The loop of base64_encode() over the bytes of src before its NUL: a is
\* an unsigned char, a >> 2 is a \div 4, (a & 3) << 4 is (a % 4) * 16, and
\* the operands of | have no bit in common.
RECURSIVE base64_loop(_, _, _)
base64_loop(src, st, len) ==
    IF src = <<>> THEN st
    ELSE
      LET a == src[1]
          s1 == encode_append(a \div 4, st, len)
      IN  IF Len(src) >= 2
          THEN
            LET b == src[2]
                s2 == encode_append(((a % 4) * 16) + (b \div 16), s1, len)
            IN  IF Len(src) >= 3
                THEN
                  LET c == src[3]
                      s3 == encode_append(((b % 16) * 4) + (c \div 64), s2, len)
                      s4 == encode_append(c % 64, s3, len)
                  IN  base64_loop(SubSeq(src, 4, Len(src)), s4, len)
                ELSE append("=", encode_append((b % 16) * 4, s2, len), len)
          ELSE append("=", append("=", encode_append((a % 4) * 16, s1, len),
                                  len), len)

\* base64_encode(): [dst, pos, nul] with the characters stored in the len
\* bytes at dst, the length returned, and whether the NUL was stored.
base64_encode(src, len) ==
    LET st == base64_loop(src, [dst |-> <<>>, pos |-> 0], len)
    IN  [dst |-> st.dst, pos |-> st.pos, nul |-> st.pos < len]

\* The bytes of the credential strings of the requests.
CredBytes(creds) == IF creds = "u:p" THEN <<117, 58, 112>> ELSE <<>>

\* The string send_auth_header() builds in buf, as [prefix, encoded, nul]:
\* base64_encode() is called once for the length and once to encode behind
\* the prefix.
auth_value(bytes) ==
    LET len == base64_encode(bytes, 0).pos
        enc == base64_encode(bytes, len + 1)
    IN  [prefix |-> "Basic ", encoded |-> enc.dst, nul |-> enc.nul]

\* send_auth_header(): "Basic " and the base64 encoding of creds.
send_auth_header(creds) ==
    [ line |-> "Authorization", scheme |-> auth_value(CredBytes(creds)).prefix,
      encoded |-> auth_value(CredBytes(creds)).encoded ]

\* The lines send_request() passes to send_line(), in order.
request_lines(inf, hv) ==
    << [ line |-> "request", command |-> inf.command, path |-> inf.path,
         version |-> " HTTP/1.1" ],
       send_host_header(hv, inf.port) >>
    \o (IF inf.creds # NULL THEN << send_auth_header(inf.creds) >> ELSE <<>>)
    \o << [line |-> "Connection", value |-> "close"] >>
    \o (IF inf.want_range = 1
        THEN << [ line |-> "Range",
                  range |-> send_range_header(inf.range_first,
                                              inf.range_last) ] >>
        ELSE <<>>)
    \o << [line |-> ""] >>

\* What send_request() serializes, with hv the bytes read through info->host:
\* the lines, then flush_buffer().  There is no shutdown() of the socket's
\* write half, here or later.
send_request(inf, hv) ==
    [ sent |-> TRUE, host |-> hv, port |-> inf.port, path |-> inf.path,
      command |-> inf.command,
      auth |-> inf.creds,
      range |-> IF inf.want_range = 1
                THEN send_range_header(inf.range_first, inf.range_last)
                ELSE <<>>,
      of |-> [ want_range |-> inf.want_range, range_first |-> inf.range_first,
               range_last |-> inf.range_last ],
      lines |-> request_lines(inf, hv), flushed |-> TRUE, shut_wr |-> FALSE ]

check_range_closed(inf, r) ==
    LET first == IF inf.want_range = 1 THEN inf.range_first ELSE 0
        last == IF inf.want_range = 1 THEN inf.range_last
                ELSE (r.range_total - 1) % (SIZE_MAX + 1)
    IN  ~ (first # r.range_first \/ last # r.range_last)

check_range(inf, r) ==
    LET first == IF inf.want_range = 1 THEN inf.range_first ELSE 0
        last == IF inf.want_range = 1 /\ inf.range_last # SIZE_MAX
                THEN inf.range_last
                ELSE (r.range_total - 1) % (SIZE_MAX + 1)
    IN  ~ (first # r.range_first \/ last # r.range_last)

\* Whether __http_simple_request() checks the achieved range (resp->ranged).
range_checked_always(inf, r) == r.ranged = 1 \/ inf.want_range = 1

range_checked(inf, r) == r.ranged = 1

\* The response recv_response() builds from the peer's status line and headers.
recv_response(srv) ==
    [ sockfd |-> 3, buf |-> TRUE, status |-> srv.status, reason |-> TRUE,
      ranged |-> srv.cr.ranged, range_first |-> srv.cr.range_first,
      range_last |-> srv.cr.range_last, range_total |-> srv.cr.range_total,
      body_read |-> 0, location |-> srv.location ]

\* __http_simple_request(): [ret, resp, err, req].  On failure the response is
\* destroyed; err is the message left in last_error ("" leaves it alone).
simple_request_attempt(inf, hv, srv) ==
    LET fail(e, q) == [ret |-> FALSE, resp |-> NoResponse, err |-> e, req |-> q]
        r == recv_response(srv)
    IN  CASE srv.kind = "resolve_fail" ->
               fail("Failed to translate address", NoRequest)
          [] srv.kind = "connect_fail" ->
               fail("Failed to connect", NoRequest)
          [] srv.kind = "send_fail" ->
               fail("Send failed", NoRequest)
          [] srv.kind = "recv_fail" ->
               fail("Receive failed", send_request(inf, hv))
          [] srv.kind = "header_fail" ->
               fail("Invalid response header", send_request(inf, hv))
          [] OTHER ->
               IF range_checked(inf, r) /\ ~ check_range(inf, r)
               THEN fail("Received range differs from requested",
                         send_request(inf, hv))
               ELSE IF srv.kind = "bad_chunk"
               THEN fail("Failed to parse response chunk size",
                         send_request(inf, hv))
               ELSE [ret |-> TRUE, resp |-> r, err |-> "",
                     req |-> send_request(inf, hv)]

\* close(sockfd).
close_skipped(socks) == socks

close(socks) == socks - 1

Max(x, y) == IF x > y THEN x ELSE y

\* init_response(): the buffer is allocated.
init_response(lv) ==
    [lv EXCEPT !.bufs = @ + 1, !.max_bufs = Max(@, lv.bufs + 1)]

\* destroy_response(): the socket is closed if there is one (connected), and
\* the buffer freed.
destroy_response(lv, connected) ==
    [lv EXCEPT !.socks = IF connected THEN close(@) ELSE @, !.bufs = @ - 1]

\* do_connect() over the candidate addresses: [ok, lv].  The socket of an
\* address that does not connect is closed before the next one is tried.
RECURSIVE do_connect(_, _)
do_connect(cands, lv) ==
    LET opened == [lv EXCEPT !.socks = @ + 1,
                             !.max_socks = Max(@, lv.socks + 1)]
    IN  IF cands = <<>> THEN [ok |-> FALSE, lv |-> lv]
        ELSE IF Head(cands) = "socket_fail" THEN do_connect(Tail(cands), lv)
        ELSE IF Head(cands) = "connect_fail"
        THEN do_connect(Tail(cands), [opened EXCEPT !.socks = close(@)])
        ELSE [ok |-> TRUE, lv |-> opened]

\* The sockets and buffers after one iteration of http_simple_request()'s
\* loop: the attempt's response is destroyed where the attempt fails
\* (http.c:862) and where its redirect is followed (http.c:905), and left to
\* the caller otherwise.
attempt_resources(lv, srv, ok, to) ==
    LET c == IF srv.kind = "resolve_fail"
             THEN [ok |-> FALSE, lv |-> init_response(lv)]
             ELSE do_connect(srv.cands, init_response(lv))
    IN  IF to = "crashed" THEN c.lv
        ELSE IF ~ ok \/ to = "loop" THEN destroy_response(c.lv, c.ok)
        ELSE c.lv

\* free(resp->reason) and url_free(resp->location) in destroy_response(), for
\* a response whose reason string and Location are set as given.
destroy_strings(lv, reason, loc) ==
    [lv EXCEPT !.reasons = IF reason THEN @ - 1 ELSE @,
               !.urls = IF loc # NullUrl THEN @ - 1 ELSE @]

\* The reason strings and Location urls after one iteration of
\* http_simple_request()'s loop, u being the url the chaser retained before
\* it.  parse_status() allocates the reason and handle_location_header() the
\* url; err_hdrs frees the reason and leaves resp->reason set, so that
\* destroy_response() frees it again; a followed redirect frees the url
\* retained before and retains the new one, and the return frees the url
\* retained.
attempt_strings(lv, u, srv, ok, to) ==
    LET parsed == srv.kind \in {"header_fail", "bad_chunk", "ok"}
        loc == IF srv.kind \in {"bad_chunk", "ok"} THEN srv.location
               ELSE NullUrl
        got == [lv EXCEPT !.reasons = IF parsed THEN @ + 1 ELSE @,
                          !.urls = IF loc # NullUrl THEN @ + 1 ELSE @]
        hdrs == IF srv.kind = "header_fail"
                THEN [got EXCEPT !.reasons = @ - 1] ELSE got
        old == IF u # NullUrl THEN 1 ELSE 0
    IN  IF to = "crashed" THEN hdrs
        ELSE IF ~ ok
        THEN [destroy_strings(hdrs, parsed, loc) EXCEPT !.urls = @ - old]
        ELSE IF to = "loop"
        THEN [destroy_strings(hdrs, parsed, NullUrl) EXCEPT !.urls = @ - old]
        ELSE [hdrs EXCEPT !.urls = @ - old]

\* recv_response() frees resp->reason where a header fails (err_hdrs) and
\* leaves the pointer in place; destroy_response() then frees it again.  The
\* behaviour is undefined: the attempt returns false, or the allocator aborts
\* the process.  The outcomes besides the return, as chase_after() gives them.
err_hdrs(ii, u, srv) ==
    IF srv.kind = "header_fail"
    THEN { [pc |-> "crashed", i |-> ii, url |-> u,
            resp |-> NoResponse, ret |-> FALSE] }
    ELSE {}

\* url_free(url) as seen through a pointer p: a pointer into the freed
\* url_struct dangles afterwards.
url_free(u, p) ==
    IF u # NullUrl /\ p.mem = "url" THEN [p EXCEPT !.mem = "freed"] ELSE p

\* The bytes a read through p may find.
ReadHost(p) ==
    CASE p.mem = "freed" -> HostNames \cup {Garbage}
      [] p.mem = "null" -> {}
      [] OTHER -> {p.val}

\* The results strcasecmp(a, b) may give: with a NULL or dangling argument the
\* behaviour is undefined, any result is possible (and so is a crash, below).
HostCmp(a, b) ==
    IF a.mem \in {"null", "freed"} \/ b.mem \in {"null", "freed"}
    THEN {0, 1}
    ELSE {strcasecmp(a.val, b.val)}

MayCrash(p) == p.mem \in {"null", "freed"}

UrlHost(u) ==
    IF u.host = NoHost THEN NullPtr ELSE [mem |-> "url", val |-> u.host]

\* !resp->location.
no_location_never(loc) == FALSE

no_location(loc) == loc = NullUrl

\* The Location names a scheme, and it is not http.
unsupported_scheme_never(loc) == FALSE

unsupported_scheme(loc) == loc.scheme # NULL /\ loc.scheme # HTTP_URL_SCHEME

Followable(loc) ==
    /\ loc # NullUrl
    /\ ~ (loc.scheme # NULL /\ loc.scheme # HTTP_URL_SCHEME)

\* The request of the next attempt (http.c:912-920): the credentials are
\* dropped where the hosts were compared and differ, host and port are the
\* Location's where it has a host, the path is the Location's.
redirect_request_norange(i1, loc, old_host, drop) ==
    [ i1 EXCEPT
        !.creds = IF drop THEN NULL ELSE @,
        !.host = IF loc.host # NoHost THEN UrlHost(loc) ELSE old_host,
        !.port = IF loc.host # NoHost THEN loc.port ELSE @,
        !.path = loc.path,
        !.want_range = 0 ]

redirect_request(i1, loc, old_host, drop) ==
    [ i1 EXCEPT
        !.creds = IF drop THEN NULL ELSE @,
        !.host = IF loc.host # NoHost THEN UrlHost(loc) ELSE old_host,
        !.port = IF loc.host # NoHost THEN loc.port ELSE @,
        !.path = loc.path ]

\* http_simple_request() from the return of __http_simple_request() (r) to the
\* next iteration or the return: the set of [pc, i, url, resp, ret] it may
\* reach.  More than one only where the behaviour is undefined.
chase_after(ii, u, r) ==
    LET hit == ii.max_redirections >= 0 /\ ii.max_redirections = 0
        i1 == IF ii.max_redirections >= 0
              THEN [ii EXCEPT !.max_redirections = @ - 1] ELSE ii
        stop(i2) == { [pc |-> "done", i |-> i2, url |-> NullUrl,
                       resp |-> r.resp, ret |-> r.ret] }
        loc == r.resp.location
        old_host == url_free(u, i1.host)
        compared == i1.creds # NULL /\ ~ i1.trusted_location
        undefined == compared /\ (MayCrash(UrlHost(loc)) \/ MayCrash(old_host))
        next(c) == redirect_request(i1, loc, old_host, compared /\ c # 0)
    IN  IF ~ r.ret THEN stop(ii)
        ELSE IF hit THEN stop(i1)
        ELSE IF ~ HTTP_STATUS_REDIRECT(r.resp.status) THEN stop(i1)
        ELSE IF no_location(loc) THEN stop(i1)
        ELSE IF unsupported_scheme(loc) THEN stop(i1)
        ELSE { [pc |-> "loop", i |-> next(c), url |-> loc,
                resp |-> NoResponse, ret |-> TRUE] :
                 c \in IF compared THEN HostCmp(UrlHost(loc), old_host) ELSE {0} }
             \cup
             IF undefined
             THEN { [pc |-> "crashed", i |-> i1, url |-> loc,
                     resp |-> NoResponse, ret |-> TRUE] }
             ELSE {}

\* ------------------------------------------------------------- actions
\* The requests download_http() builds: with and without credentials, trust
\* and redirect budget and no range, or a range and no redirect budget, or a
\* port, credentials, a range and a budget of one redirect.
InfoSet ==
    { http_request_info(HostA, -1, c, t, m, NoRange) :
        c \in Credentials, t \in BOOLEAN, m \in -1 .. MaxRedirections }
    \cup
    { http_request_info(HostA, -1, NULL, FALSE, 0, rg) : rg \in RangeRequests }
    \cup
    { http_request_info(HostA, 81, "u:p", FALSE, 1,
        [want_range |-> 1, range_first |-> 1, range_last |-> SIZE_MAX]) }

Init ==
    /\ pc = "idle"
    /\ info \in InfoSet
    /\ i = info
    /\ url = NullUrl
    /\ resp = NoResponse
    /\ ret = FALSE
    /\ last_error = ""
    /\ nattempts = 0
    /\ lastreq = NoRequest
    /\ lastsrv = NoServer
    /\ lastret = FALSE
    /\ all3xx = TRUE
    /\ redir = NoRedirect
    /\ live = NoneLive
    /\ BodyIdle

\* download_http() calls http_simple_request(), which copies the request.
Call ==
    /\ pc = "idle"
    /\ pc' = "loop"
    /\ i' = info
    /\ url' = NullUrl
    /\ UNCHANGED << info, resp, ret, last_error,
                    nattempts, lastreq, lastsrv, lastret, all3xx, redir, live >>
    /\ UNCHANGED body_vars

\* One iteration of http_simple_request()'s loop: the attempt, then either the
\* return or the preparation of the next attempt.
Attempt ==
    /\ pc = "loop"
    /\ nattempts < MaxAttempts
    /\ \E hv \in ReadHost(i.host), srv \in Servers :
         LET r == simple_request_attempt(i, hv, srv)
         IN  \E n \in chase_after(i, url, r) \cup err_hdrs(i, url, srv) :
               /\ pc' = n.pc
               /\ i' = n.i
               /\ url' = n.url
               /\ resp' = n.resp
               /\ ret' = n.ret
               /\ last_error' = IF r.err = "" THEN last_error ELSE r.err
               /\ nattempts' = nattempts + 1
               /\ lastreq' = r.req
               /\ lastsrv' = srv
               /\ lastret' = r.ret
               /\ all3xx' = (all3xx /\ r.ret /\ srv.status \div 100 = 3
                                    /\ Followable(srv.location))
               /\ redir' = IF n.pc = "done" THEN redir
                           ELSE [ n |-> nattempts + 1,
                                  from_host |-> r.req.host,
                                  to_host |-> srv.location.host,
                                  auth_before |-> r.req.auth,
                                  trusted |-> i.trusted_location,
                                  from_port |-> r.req.port,
                                  to_port |-> srv.location.port,
                                  to_path |-> srv.location.path ]
               /\ live' = attempt_strings(
                             attempt_resources(live, srv, r.ret, n.pc),
                             url, srv, r.ret, n.pc)
    /\ UNCHANGED info
    /\ UNCHANGED body_vars

\* do_connect() and send_host_header() read a host whose storage was freed.
AttemptCrash ==
    /\ pc = "loop"
    /\ nattempts < MaxAttempts
    /\ MayCrash(i.host)
    /\ pc' = "crashed"
    /\ UNCHANGED << info, i, url, resp, ret, last_error,
                    nattempts, lastreq, lastsrv, lastret, all3xx, redir, live >>
    /\ UNCHANGED body_vars

\* download_http() after http_simple_request() returned (main.c 358-366).
CallerCheck ==
    /\ pc = "done"
    /\ pc' = IF ~ ret THEN "exit_error"
             ELSE IF ~ HTTP_STATUS_OK(resp.status) THEN "exit_status"
             ELSE IF info.want_range = 1 /\ resp.ranged = 0 THEN "exit_norange"
             ELSE "reading"
    /\ UNCHANGED << info, i, url, resp, ret, last_error,
                    nattempts, lastreq, lastsrv, lastret, all3xx, redir, live >>
    /\ UNCHANGED body_vars

\* http_response_destroy().
Destroy ==
    /\ pc = "reading"
    /\ pc' = "closed"
    /\ resp' = NoResponse
    /\ live' = destroy_strings(destroy_response(live, TRUE),
                               resp.reason, resp.location)
    /\ UNCHANGED << info, i, url, ret, last_error,
                    nattempts, lastreq, lastsrv, lastret, all3xx, redir >>
    /\ UNCHANGED body_vars

Next == Call \/ Attempt \/ AttemptCrash \/ CallerCheck \/ Destroy

Spec == Init /\ [][Next]_vars

\* ------------------------------------------------------------- claims: chaser
\* The pc values after http_simple_request() has returned.
Returned == {"done", "exit_error", "exit_status", "exit_norange", "reading", "closed"}

\* C1 (as claimed): with a budget N >= 0 and a peer that answers every attempt
\* with a 3xx response carrying a followable Location, http_simple_request
\* goes on while fewer than N+1 attempts were made, then returns success after
\* exactly N+1 attempts with the last 3xx response intact (socket open, body
\* unread, Location kept).
C1_ExactlyBudgetPlusOneAttempts ==
    (info.max_redirections >= 0 /\ nattempts > 0 /\ all3xx) =>
        /\ pc # "crashed"
        /\ (pc = "loop" => nattempts <= info.max_redirections)
        /\ (pc \in Returned =>
              /\ nattempts = info.max_redirections + 1
              /\ ret = TRUE)
        /\ (pc = "done" =>
              /\ resp.sockfd >= 0 /\ resp.buf
              /\ resp.status \div 100 = 3
              /\ resp.body_read = 0
              /\ resp.location = lastsrv.location)

\* The follow-up request of the redirect recorded in redir has been sent.
FollowUpSent == redir.n > 0 /\ nattempts = redir.n + 1 /\ lastreq.sent

\* C2 (as claimed): when a request carrying credentials is redirected to a
\* Location whose host differs, ignoring case, from the host of the attempt
\* being redirected, and trusted_location is not set, the follow-up request
\* has no Authorization header.
C2_NoAuthorizationToOtherHost ==
    ( /\ FollowUpSent
      /\ redir.auth_before # NULL
      /\ ~ redir.trusted
      /\ redir.to_host # NoHost
      /\ Lower(redir.to_host) # Lower(redir.from_host) )
    => lastreq.auth = NULL

\* C3 (as claimed): when a redirect is followed and the Location's host equals
\* the host of the attempt being redirected, ignoring case, or
\* trusted_location is set, the follow-up request carries the Authorization
\* header of the previous request.
C3_AuthorizationKeptOnSameHost ==
    ( /\ FollowUpSent
      /\ \/ redir.trusted
         \/ /\ redir.to_host # NoHost
            /\ Lower(redir.to_host) = Lower(redir.from_host) )
    => lastreq.auth = redir.auth_before

\* The range http_simple_request expects of a partial response of total t.
ExpectedRange(inf, t) ==
    IF inf.want_range = 1
    THEN IF inf.range_last = SIZE_MAX
         THEN <<inf.range_first, t - 1>>
         ELSE <<inf.range_first, inf.range_last>>
    ELSE <<0, t - 1>>

AchievedExpected ==
    <<lastsrv.cr.range_first, lastsrv.cr.range_last>>
        = ExpectedRange(info, lastsrv.cr.range_total)

\* C8: a response marked partial with Content-Range (f, l, t) is accepted by
\* http_simple_request iff (f, l) is the expected range: the requested one,
\* (range_first, t-1) for an open request, (0, t-1) without a requested range;
\* otherwise it fails with the range-mismatch error.
C8_PartialAcceptedIffExpectedRange ==
    (pc = "done" /\ lastsrv.kind = "ok" /\ lastsrv.cr.ranged = 1) =>
        /\ ret = AchievedExpected
        /\ (ret => resp.ranged = 1 /\ resp.sockfd >= 0)
        /\ (~ ret => last_error = "Received range differs from requested")

C8_Witness ==
    /\ pc = "done" /\ lastsrv.kind = "ok" /\ lastsrv.cr.ranged = 1 /\ ret
    /\ info.want_range = 1 /\ info.range_last = SIZE_MAX
    /\ lastsrv.cr.range_first > 0

\* C9 (as claimed): whenever the request asked for a range, a parsed response
\* whose achieved range differs from it, a response without Content-Range
\* included, makes http_simple_request fail.
C9_AsClaimed ==
    ( /\ pc = "done" /\ lastsrv.kind = "ok" /\ info.want_range = 1
      /\ (lastsrv.cr.ranged = 0 \/ ~ AchievedExpected) )
    => ret = FALSE

\* C9 (amended): whenever the request asked for a range, http_simple_request
\* fails a parsed response exactly when it carries a Content-Range that differs
\* from the requested range; a response without Content-Range is returned as
\* a success, and it is download_http() that refuses it: no body is read
\* unless the achieved range is the requested one.
C9_RangeCheckedWhenPartial ==
    /\ (pc = "done" /\ lastsrv.kind = "ok" /\ info.want_range = 1) =>
          (ret = FALSE <=> (lastsrv.cr.ranged = 1 /\ ~ AchievedExpected))
    /\ (pc \in {"reading", "closed"} /\ info.want_range = 1) =>
          (lastsrv.cr.ranged = 1 /\ AchievedExpected)

C9_Witness ==
    /\ pc = "exit_norange" /\ ret = TRUE
    /\ info.want_range = 1 /\ lastsrv.kind = "ok" /\ lastsrv.cr.ranged = 0

\* C10: if an attempt succeeds and its status is not 3xx, http_simple_request
\* has returned success after that attempt (no further attempt is prepared),
\* with that response's connection open and its body unread.
C10_StopsOnNonRedirect ==
    (nattempts > 0 /\ lastret /\ lastsrv.status \div 100 # 3) =>
        /\ pc \in Returned
        /\ ret = TRUE
        /\ (pc \in {"done", "reading"} =>
              /\ resp.sockfd >= 0 /\ resp.buf
              /\ resp.body_read = 0
              /\ resp.status = lastsrv.status)

C10_Witness ==
    /\ pc = "done" /\ ret /\ lastret /\ lastsrv.status = 200
    /\ nattempts = 2
    /\ info.max_redirections = -1
    /\ Followable(lastsrv.location)

\* C11 (as claimed): if an attempt fails, whatever the reason and the
\* remaining budget, http_simple_request has returned false after it: no
\* further attempt is made.
C11_FailedAttemptReturnsFalse ==
    (nattempts > 0 /\ ~ lastret) =>
        /\ pc \in {"done", "exit_error"}
        /\ ret = FALSE

\* C12: at every point of http_simple_request at most one socket is open and
\* at most one buffer allocated: between two attempts there is none, and while
\* do_connect tries the candidate addresses the socket of a failed one is
\* closed before the next is opened.  The response returned as a success owns
\* the one socket and buffer.
C12_AtMostOneSocket ==
    /\ live.max_socks <= 1 /\ live.max_bufs <= 1
    /\ live.socks \in {0, 1} /\ live.bufs \in {0, 1}
    /\ pc \in {"idle", "loop"} => (live.socks = 0 /\ live.bufs = 0)
    /\ pc = "done" => /\ live.socks = (IF ret THEN 1 ELSE 0)
                      /\ live.bufs = live.socks
                      /\ (resp.sockfd >= 0) = (live.socks = 1)
    /\ pc = "closed" => (live.socks = 0 /\ live.bufs = 0)

C12_Witness ==
    /\ pc = "done" /\ ret /\ nattempts = 3
    /\ lastsrv.cands = <<"connect_fail", "socket_fail", "ok">>
    /\ live.socks = 1 /\ live.max_socks = 1

\* A successful attempt got a 3xx response whose Location names a scheme
\* other than http.
OtherScheme ==
    /\ nattempts > 0 /\ lastret /\ lastsrv.status \div 100 = 3
    /\ lastsrv.location # NullUrl
    /\ lastsrv.location.scheme \notin {NULL, HTTP_URL_SCHEME}

\* C13 (as claimed): when a 3xx response's Location names a scheme other than
\* http, http_simple_request makes no further attempt and reports failure
\* with an error message.
C13_AsClaimed ==
    OtherScheme => (pc \in Returned /\ ret = FALSE /\ last_error # "")

\* C13 (amended): when a 3xx response's Location names a scheme other than
\* http, http_simple_request makes no further attempt and returns success
\* with that 3xx response, its connection open and its Location kept, and
\* sets no error; download_http() then fails on the status, reading no body.
C13_OtherSchemeReturned ==
    OtherScheme =>
        /\ pc \in {"done", "exit_status"}
        /\ ret = TRUE
        /\ last_error = ""
        /\ (pc = "done" =>
              /\ resp.sockfd >= 0 /\ resp.buf
              /\ resp.status = lastsrv.status
              /\ resp.location = lastsrv.location)

C13_Witness ==
    /\ OtherScheme /\ pc = "exit_status" /\ ret
    /\ nattempts = 2 /\ info.max_redirections = MaxRedirections

\* C14: when a successful attempt got a 3xx response without Location, the
\* budget exhausted or not, http_simple_request has returned success after it
\* (no further attempt is prepared), with that response, its connection open.
C14_NoLocationStops ==
    (nattempts > 0 /\ lastret /\ lastsrv.status \div 100 = 3
       /\ lastsrv.location = NullUrl) =>
        /\ pc \in {"done", "exit_status"}
        /\ ret = TRUE
        /\ (pc = "done" =>
              /\ resp.sockfd >= 0 /\ resp.buf
              /\ resp.status = lastsrv.status
              /\ resp.body_read = 0
              /\ live.socks = 1)

C14_Witness ==
    /\ pc = "done" /\ ret /\ lastret /\ lastsrv.status = 302
    /\ lastsrv.location = NullUrl
    /\ nattempts = 2 /\ info.max_redirections > nattempts - 1
    /\ i.max_redirections = info.max_redirections - nattempts

\* C15 (as claimed): with a negative max_redirections the budget is never
\* decremented and never stops the loop: while every attempt is answered by
\* a 3xx with a followable Location the chase goes on to the next attempt.
C15_UnlimitedBudgetGoesOn ==
    (info.max_redirections < 0 /\ nattempts > 0 /\ all3xx) =>
        /\ pc = "loop"
        /\ i.max_redirections = info.max_redirections

\* The header names of the lines of a request, in order.
LineNames(ls) == [k \in DOMAIN ls |-> ls[k].line]

\* C16, by lines: a request sent in full consists, in this order, of the request line
\* 'METHOD PATH HTTP/1.1', the Host header with a ':port' suffix iff
\* port >= 0, an Authorization header iff credentials are set, 'Connection:
\* close', a Range header iff want_range ('bytes=first-last', 'bytes=first-'
\* when last is SIZE_MAX) and an empty line, followed by the flush.
C16_RequestSerialized ==
    lastreq.sent =>
        LET q == lastreq
            ls == lastreq.lines
            auth == IF q.auth # NULL THEN <<"Authorization">> ELSE <<>>
            range == IF q.of.want_range = 1 THEN <<"Range">> ELSE <<>>
        IN  /\ LineNames(ls)
                 = <<"request", "Host">> \o auth \o <<"Connection">>
                   \o range \o <<"">>
            /\ ls[1] = [ line |-> "request", command |-> q.command,
                         path |-> q.path, version |-> " HTTP/1.1" ]
            /\ ls[2].host = q.host
            /\ ls[2].suffix = (IF q.port >= 0 THEN <<":", q.port>> ELSE <<>>)
            /\ q.auth # NULL =>
                  ls[3] = [ line |-> "Authorization", scheme |-> "Basic ",
                            encoded |-> <<"d", "T", "p", "w">> ]
            /\ \A k \in DOMAIN ls :
                  /\ ls[k].line = "Connection" => ls[k].value = "close"
                  /\ ls[k].line = "Range" =>
                        ls[k].range
                          = (IF q.of.range_last = SIZE_MAX
                             THEN <<"bytes=", q.of.range_first, "-">>
                             ELSE <<"bytes=", q.of.range_first, "-",
                                    q.of.range_last>>)
            /\ q.flushed

C16_Witness ==
    /\ lastreq.sent /\ lastreq.auth # NULL /\ lastreq.port >= 0
    /\ lastreq.of.want_range = 1 /\ lastreq.of.range_last = SIZE_MAX
    /\ Len(lastreq.lines) = 6

\* C17 (as claimed): in every attempt whose request was sent in full, the
\* write half of the connection was closed after the request.
C17_WriteHalfClosed ==
    (nattempts > 0 /\ lastreq.sent) => lastreq.shut_wr

\* C20 (as claimed): the request that follows a redirect goes to the
\* Location's host, port (the default when the Location gives none) and path
\* when the Location has a host, and to the previous attempt's host and port
\* with the Location's path when it has none.
C20_RedirectTarget ==
    FollowUpSent =>
        /\ lastreq.path = redir.to_path
        /\ redir.to_host # NoHost =>
              (lastreq.host = redir.to_host /\ lastreq.port = redir.to_port)
        /\ redir.to_host = NoHost =>
              (lastreq.host = redir.from_host /\ lastreq.port = redir.from_port)

\* C28: across the attempts of one call the method, want_range and the range
\* stay the caller's: every request sent carries the caller's method and the
\* Range header of the caller's range (none without want_range), the chaser's
\* copy differs from the caller's request in host, port, path, credentials
\* and redirect budget only, and the caller's request is the one passed.
C28_OnlyTargetChanges ==
    /\ i.command = info.command
    /\ i.want_range = info.want_range
    /\ i.range_first = info.range_first
    /\ i.range_last = info.range_last
    /\ i.trusted_location = info.trusted_location
    /\ lastreq.sent =>
         /\ lastreq.command = info.command
         /\ lastreq.of = [ want_range |-> info.want_range,
                           range_first |-> info.range_first,
                           range_last |-> info.range_last ]
         /\ (lastreq.range # <<>>) = (info.want_range = 1)
    /\ info \in InfoSet
    /\ info.host.mem = "info"

C28_Witness ==
    /\ nattempts = 2 /\ lastreq.sent /\ pc = "done"
    /\ info.want_range = 1
    /\ lastreq.path # info.path /\ lastreq.host # info.host.val

\* C29 (as claimed): no socket, buffer, reason string or Location url is
\* released twice, and none is left allocated: after a failed call and after
\* http_response_destroy there is none, and a response returned as a success
\* owns one socket, one buffer, one reason string and its Location url.
C29_ReleasedExactlyOnce ==
    /\ live.socks >= 0 /\ live.bufs >= 0
    /\ live.reasons >= 0 /\ live.urls >= 0
    /\ (pc = "done" /\ ~ ret) =>
         (live.socks = 0 /\ live.bufs = 0 /\ live.reasons = 0 /\ live.urls = 0)
    /\ (pc = "done" /\ ret) =>
         /\ live.socks = 1 /\ live.bufs = 1 /\ live.reasons = 1
         /\ live.urls = (IF resp.location # NullUrl THEN 1 ELSE 0)
    /\ pc = "closed" =>
         (live.socks = 0 /\ live.bufs = 0 /\ live.reasons = 0 /\ live.urls = 0)

\* C32 (as claimed): the host the chaser's request names, for every attempt,
\* is in storage that is alive, the caller's request or the url the chaser
\* retains; and the request that follows a redirect whose Location has no
\* host goes to the host of the attempt that was redirected.
C32_HostStorageAlive ==
    /\ pc = "loop"
         => /\ i.host.mem # "freed"
            /\ i.host.mem = "url" => (url # NullUrl /\ i.host.val = url.host)
    /\ (FollowUpSent /\ redir.to_host = NoHost)
         => lastreq.host = redir.from_host

\* C33 (as claimed): a redirect whose Location has a path and no host, met by
\* a request with credentials and without trusted_location, is followed
\* without a crash, the credentials stay in the chaser's request, and the
\* follow-up request goes to the same host and port with the Location's path
\* and the Authorization header.
C33_HostlessLocationKeepsAuth ==
    ( /\ redir.n > 0 /\ nattempts = redir.n
      /\ redir.to_host = NoHost /\ redir.to_path # NULL
      /\ redir.auth_before # NULL /\ ~ redir.trusted )
    => /\ pc = "loop"
       /\ i.creds = redir.auth_before
       /\ i.port = redir.from_port
       /\ i.path = redir.to_path

\* C36 (as claimed): a chaser's request without credentials never gets them
\* back, so that no attempt after the one that lost them sends an
\* Authorization header, whatever host it goes to; and where a request with
\* credentials and without trusted_location is redirected to a Location with
\* a host, the credentials are dropped exactly when that host differs,
\* ignoring case, from the host the redirected attempt went to.
C36_CredentialsDroppedForGood ==
    [][ /\ (pc = "loop" /\ i.creds = NULL)
           => /\ i'.creds = NULL
              /\ (nattempts' = nattempts + 1 /\ lastreq'.sent)
                   => lastreq'.auth = NULL
        /\ ( /\ pc = "loop" /\ pc' = "loop" /\ nattempts' = nattempts + 1
             /\ i.creds # NULL /\ ~ i.trusted_location
             /\ url'.host # NoHost )
           => ( (i'.creds = NULL)
                  <=> (Lower(url'.host) # Lower(lastreq'.host)) ) ]_vars

\* ============================================================== Part II
\* The reader of a response body: http_response_read() and what it calls.
\* The body is a sequence of bytes; the peer's bytes arrive in segments whose
\* sizes the network chooses, and a recv() may fail at any time.

\* ------------------------------------------------------------- bounds: body
\* Largest number of body bytes a peer sets out to send.
MaxBody == 3
\* Largest len the caller passes to http_response_read().
MaxLen == 2

\* ------------------------------------------------------------- values: body
BUF_SIZE == 4096
\* sizeof(buf) of load_chunk()'s line buffer.
CHUNK_LINE_SIZE == 16

CR == "CR"
LF == "LF"
\* The body bytes, all different so that their order shows.
BodyBytes == <<"p", "q", "r", "s", "t", "u", "v", "w">>
HexDigits ==
    <<"0", "1", "2", "3", "4", "5", "6", "7", "8", "9", "a", "b", "c", "d", "e", "f">>

min(x, y) == IF x < y THEN x ELSE y

BUF_USED(c) == c.buf_end - c.buf_begin

BUF_LEFT(c) == BUF_SIZE - c.buf_end

\* 1-based position of the first ch in data, 0 if there is none.
memchr(data, ch) ==
    IF \E k \in 1 .. Len(data) : data[k] = ch
    THEN CHOOSE k \in 1 .. Len(data) :
           /\ data[k] = ch
           /\ \A j \in 1 .. k - 1 : data[j] # ch
    ELSE 0

\* The value of digit c in the given base, -1 if it is not one.
DigitVal(c, base) ==
    IF \E k \in 1 .. base : HexDigits[k] = c
    THEN (CHOOSE k \in 1 .. base : HexDigits[k] = c) - 1
    ELSE -1

\* strtoll() over digits, saturating above SIZE_MAX; -1 if a character is
\* not a digit.  (The alphabet has no white space, sign or 0x prefix.)
RECURSIVE strtoll(_, _, _)
strtoll(str, base, acc) ==
    IF str = <<>> THEN acc
    ELSE IF DigitVal(Head(str), base) < 0 THEN -1
    ELSE strtoll(Tail(str), base,
                 min(acc * base + DigitVal(Head(str), base), SIZE_MAX + 1))

\* parse_size(): the value, or -1 where the code returns false.
parse_size(str, base) ==
    IF str = <<>> THEN -1
    ELSE IF strtoll(str, base, 0) < 0 \/ strtoll(str, base, 0) > SIZE_MAX THEN -1
    ELSE strtoll(str, base, 0)

\* ------------------------------------------------------------- peers: body
RECURSIVE ToHex(_)
ToHex(n) ==
    IF n < 16 THEN << HexDigits[n + 1] >>
    ELSE ToHex(n \div 16) \o << HexDigits[(n % 16) + 1] >>

RECURSIVE SumSeq(_)
SumSeq(q) == IF q = <<>> THEN 0 ELSE Head(q) + SumSeq(Tail(q))

\* The chunk sizes of a chunked body, the terminating zero left out.
ChunkLists ==
    { q \in UNION { [1 .. n -> 1 .. MaxBody] : n \in 0 .. MaxBody } :
        SumSeq(q) <= MaxBody }

\* The chunked encoding chunked_read() and load_chunk() decode: size line,
\* data, CRLF for every chunk, then the zero-size chunk and the final CRLF.
RECURSIVE ChunkEncode(_, _)
ChunkEncode(chunks, data) ==
    IF chunks = <<>> THEN <<"0", CR, LF, CR, LF>>
    ELSE ToHex(Head(chunks)) \o <<CR, LF>>
         \o SubSeq(data, 1, Head(chunks)) \o <<CR, LF>>
         \o ChunkEncode(Tail(chunks), SubSeq(data, Head(chunks) + 1, Len(data)))

\* Position in the encoding of the zero-size chunk's size digit.
ZeroChunkAt(full) == Len(full) - 4

\* What a peer may send behind a chunk's data instead of CR LF and a size
\* line: other bytes, an empty size line, a size line that is not a number.
BadChunkEnds ==
    { <<"q", "r", "0", CR, LF, CR, LF>>, <<CR, LF, LF>>, <<CR, LF, CR, LF>>,
      <<CR, LF, "g", CR, LF>> }

\* A peer announcing Content-Length n and sending k <= n bytes, a peer
\* announcing no length and sending k bytes until it shuts down, and a peer
\* sending the first t bytes of a chunked body, and a peer sending a chunk
\* with a bad end.  A peer that sent everything may leave the connection open.
BodyPeers ==
    { [ chunked |-> 0, body_size |-> n, payload |-> SubSeq(BodyBytes, 1, n),
        wire |-> SubSeq(BodyBytes, 1, k), shut |-> sh,
        complete |-> (k = n), truncated |-> (k < n), malformed |-> FALSE ] :
        n \in 1 .. MaxBody, k \in 0 .. MaxBody, sh \in BOOLEAN }
    \cup
    { [ chunked |-> 0, body_size |-> 0, payload |-> SubSeq(BodyBytes, 1, k),
        wire |-> SubSeq(BodyBytes, 1, k), shut |-> TRUE,
        complete |-> TRUE, truncated |-> FALSE, malformed |-> FALSE ] :
        k \in 0 .. MaxBody }
    \cup
    UNION { LET full == ChunkEncode(q, SubSeq(BodyBytes, 1, SumSeq(q)))
            IN  { [ chunked |-> 1, body_size |-> 0,
                    payload |-> SubSeq(BodyBytes, 1, SumSeq(q)),
                    wire |-> SubSeq(full, 1, t), shut |-> sh,
                    complete |-> (t = Len(full)),
                    truncated |-> (t < ZeroChunkAt(full)),
                    malformed |-> FALSE ] :
                    t \in 0 .. Len(full), sh \in BOOLEAN }
          : q \in ChunkLists }
    \cup
    { [ chunked |-> 1, body_size |-> 0, payload |-> <<"p">>,
        wire |-> <<"1", CR, LF, "p">> \o bad, shut |-> TRUE,
        complete |-> FALSE, truncated |-> FALSE, malformed |-> TRUE ] :
        bad \in BadChunkEnds }

\* A peer that stops early shuts the connection down.
BodyPeerSet ==
    { b \in BodyPeers :
        /\ Len(b.wire) <= Len(b.payload) \/ b.chunked = 1
        /\ b.complete \/ b.shut }

\* ------------------------------------------------------------- receiving
\* The operators below take and return a record s = [conn, net, err]: the
\* connection, what the peer still delivers, and the message set_last_error()
\* stored during the call ("" if none).

set_last_error(s, msg) == [s EXCEPT !.err = msg]

\* The loops of do_send() and do_recv() issue no send() or recv() once
\* conn->failed is set.
io_goes_on(c) == FALSE

skips_io(c) == c.failed

\* do_recv(): the outcomes [s, got] of receiving up to len bytes.  A recv()
\* returns any non-empty prefix of what has not arrived yet, 0 once the peer
\* has shut down, or fails; it blocks while the peer keeps a drained
\* connection open.  With exact set the loop goes on until len bytes, end of
\* stream or a failure.
do_recv(s, len, exact) ==
    IF skips_io(s.conn) \/ len = 0 THEN { [s |-> s, got |-> <<>>] }
    ELSE LET avail == Len(s.net.data)
             Take(j) == [s EXCEPT !.net.data = SubSeq(@, j + 1, avail),
                                  !.net.late = @ \/ s.conn.failed]
             Fail(j) == [Take(j) EXCEPT !.conn.failed = TRUE,
                                        !.err = "Receive failed"]
             Got(j) == SubSeq(s.net.data, 1, j)
         IN  IF exact
             THEN { [s |-> Take(min(len, avail)), got |-> Got(min(len, avail))] :
                      x \in IF avail >= len \/ s.net.shut THEN {1} ELSE {} }
                  \cup
                  { [s |-> Fail(j), got |-> Got(j)] :
                      j \in 0 .. min(len - 1, avail) }
             ELSE { [s |-> Take(j), got |-> Got(j)] : j \in 1 .. min(len, avail) }
                  \cup
                  { [s |-> Take(0), got |-> <<>>] :
                      x \in IF avail = 0 /\ s.net.shut THEN {1} ELSE {} }
                  \cup
                  { [s |-> Fail(0), got |-> <<>>] }

copy_from_buffer(s, len) ==
    LET n == min(BUF_USED(s.conn), len)
    IN  [ s |-> [s EXCEPT !.conn.buf_begin = @ + n,
                          !.conn.data = SubSeq(@, n + 1, Len(@))],
          got |-> SubSeq(s.conn.data, 1, n) ]

\* refill_buffer(): the outcomes [s, n].
refill_buffer(s) ==
    LET c0 == IF BUF_USED(s.conn) = 0
              THEN [s.conn EXCEPT !.buf_begin = 0, !.buf_end = 0]
              ELSE s.conn
    IN  { [ s |-> [r.s EXCEPT !.conn.buf_end = @ + Len(r.got),
                              !.conn.data = @ \o r.got],
            n |-> Len(r.got) ] :
            r \in do_recv([s EXCEPT !.conn = c0], BUF_LEFT(c0), FALSE) }

\* buffered_recv(): the outcomes [s, got].
buffered_recv(s, len) ==
    LET a == IF BUF_USED(s.conn) > 0 THEN copy_from_buffer(s, len)
             ELSE [s |-> s, got |-> <<>>]
    IN  IF len - Len(a.got) > 0
        THEN { [s |-> r.s, got |-> a.got \o r.got] :
                 r \in do_recv(a.s, len - Len(a.got), TRUE) }
        ELSE { a }

\* The loop of recv_line(): the outcomes [s, line, end] with the bytes copied
\* to buf so far.  end is "abort" where assert(n > 0) fails (a build without
\* assertions goes on instead) and "overflow" where the copy runs past buf
\* (the process dies there, or goes on with the bytes written behind buf).
RECURSIVE recv_line_loop(_, _, _)
recv_line_loop(s, line, buf_size) ==
    IF Len(line) >= buf_size THEN { [s |-> s, line |-> line, end |-> "ok"] }
    ELSE
      LET filled == IF BUF_USED(s.conn) = 0 THEN refill_buffer(s)
                    ELSE { [s |-> s, n |-> BUF_USED(s.conn)] }
      IN  UNION {
            IF f.n = 0 THEN { [s |-> f.s, line |-> line, end |-> "ok"] }
            ELSE
              LET p == memchr(f.s.conn.data, LF)
                  c == copy_from_buffer(f.s, IF p > 0 THEN p - 1
                                              ELSE buf_size - Len(line))
                  line2 == line \o c.got
                  popped == [c.s EXCEPT !.conn.buf_begin = @ + 1,
                                        !.conn.data = Tail(@)]
                  go == IF p > 0
                        THEN { [s |-> popped, line |-> line2, end |-> "ok"] }
                        ELSE recv_line_loop(c.s, line2, buf_size)
              IN  IF Len(line2) > buf_size
                  THEN { [s |-> c.s, line |-> line2, end |-> "overflow"] } \cup go
                  ELSE IF Len(c.got) = 0
                  THEN { [s |-> c.s, line |-> line, end |-> "abort"] } \cup go
                  ELSE go
            : f \in filled }

\* recv_line(): the outcomes [s, line, n, end, stored]; n is the length
\* returned, line the string in buf, the trailing CR stripped, and stored the
\* number of bytes the loop wrote at buf.
recv_line(s, buf_size) ==
    { LET strip == Len(r.line) > 0 /\ r.line[Len(r.line)] = CR
          line == IF strip THEN SubSeq(r.line, 1, Len(r.line) - 1) ELSE r.line
      IN  [ s |-> r.s, line |-> line, n |-> Len(line), end |-> r.end,
            stored |-> Len(r.line) ] :
      r \in recv_line_loop(s, <<>>, buf_size) }

\* load_chunk(): the outcomes [s, b, ok, end]; b is the response's body
\* fields, chunk_size stored only where the line parses.  Nothing follows a
\* recv_line() that did not return.
load_chunk(s, b) ==
    { LET bad == r.n >= CHUNK_LINE_SIZE \/ parse_size(r.line, 16) < 0
      IN  IF r.end # "ok" THEN [s |-> r.s, b |-> b, ok |-> FALSE, end |-> r.end]
          ELSE [ s |-> IF bad /\ ~ r.s.conn.failed
                       THEN set_last_error(r.s,
                              "Failed to parse response chunk size")
                       ELSE r.s,
                 b |-> IF bad THEN b
                       ELSE [b EXCEPT !.chunk_size = parse_size(r.line, 16)],
                 ok |-> ~ bad, end |-> r.end ] :
      r \in recv_line(s, CHUNK_LINE_SIZE) }

\* ------------------------------------------------------------- reading
\* resp->body_read += n.
body_read_stuck(body_read, n) == body_read

body_read_add(body_read, n) == body_read + n

\* The branch of chunked_read() taken when the chunk is used up.
chunk_end(chunk_size) == chunk_size = 0

\* simple_read()'s test at end of stream for a body shorter than announced.
body_short_never(body_read, body_size) == FALSE

body_short(body_read, body_size) == body_read < body_size

\* chunked_read(): the outcomes [s, b, ret, got, end]; got is what the caller
\* receives, ret bytes of buf.
chunked_read(s, b, len) ==
    IF b.chunk_size = 0
    THEN { [s |-> s, b |-> b, ret |-> 0, got |-> <<>>, end |-> "ok"] }
    ELSE
      UNION {
        IF Len(r.got) < min(len, b.chunk_size)
        THEN { [ s |-> IF r.s.conn.failed THEN r.s
                       ELSE set_last_error(r.s,
                              "Response chunk shorter than announced"),
                 b |-> b, ret |-> -1, got |-> <<>>, end |-> "ok" ] }
        ELSE
          LET n == Len(r.got)
              b2 == [b EXCEPT !.body_read = body_read_add(@, n),
                              !.chunk_size = @ - n]
          IN  IF ~ chunk_end(b2.chunk_size)
              THEN { [s |-> r.s, b |-> b2, ret |-> n, got |-> r.got, end |-> "ok"] }
              ELSE
                UNION {
                  IF t.got # <<CR, LF>>
                  THEN { [ s |-> IF t.s.conn.failed THEN t.s
                                 ELSE set_last_error(t.s,
                                        "Response chunk lacks terminating CRLF"),
                           b |-> b2, ret |-> -1, got |-> <<>>, end |-> "ok" ] }
                  ELSE { [ s |-> q.s, b |-> q.b,
                           ret |-> IF q.ok THEN n ELSE -1,
                           got |-> IF q.ok THEN r.got ELSE <<>>,
                           end |-> q.end ] : q \in load_chunk(t.s, b2) }
                  : t \in buffered_recv(r.s, 2) }
        : r \in buffered_recv(s, min(len, b.chunk_size)) }

\* simple_read(): the outcomes [s, b, ret, got, end].
simple_read(s, b, len) ==
    LET l == IF b.body_size > 0 THEN min(len, b.body_size - b.body_read)
             ELSE len
    IN  { LET n == Len(r.got)
              b2 == [b EXCEPT !.body_read = body_read_add(@, n)]
          IN  IF n # 0
              THEN [s |-> r.s, b |-> b2, ret |-> n, got |-> r.got, end |-> "ok"]
              ELSE IF r.s.conn.failed
              THEN [s |-> r.s, b |-> b2, ret |-> -1, got |-> <<>>, end |-> "ok"]
              ELSE IF body_short(b2.body_read, b2.body_size)
              THEN [ s |-> set_last_error(r.s,
                             "Response body shorter than announced"),
                     b |-> b2, ret |-> -1, got |-> <<>>, end |-> "ok" ]
              ELSE [s |-> r.s, b |-> b2, ret |-> 0, got |-> <<>>, end |-> "ok"] :
          r \in buffered_recv(s, l) }

http_response_read(s, b, len) ==
    IF b.chunked = 1 THEN chunked_read(s, b, len) ELSE simple_read(s, b, len)

\* ------------------------------------------------------------- actions: body
\* The caller's position after a call that ended as given.
AfterCall(end, ok) ==
    CASE end = "abort" -> "aborted"
      [] end = "overflow" -> "crashed"
      [] ~ ok -> "failed"
      [] OTHER -> "ready"

\* recv_response() has parsed the header of a response of one of the peers;
\* the buffer holds the bytes that arrived with the header's last segment,
\* which held the header's empty line only or filled the buffer to its end.
InitBody ==
    /\ pc = "body"
    /\ info = http_request_info(HostA, -1, NULL, FALSE, 0, NoRange)
    /\ i = info
    /\ url = NullUrl
    /\ resp = NoResponse
    /\ ret = FALSE
    /\ last_error = ""
    /\ nattempts = 0
    /\ lastreq = NoRequest
    /\ lastsrv = NoServer
    /\ lastret = FALSE
    /\ all3xx = TRUE
    /\ redir = NoRedirect
    /\ live = NoneLive
    /\ bpc = "headers"
    /\ peer \in BodyPeerSet
    /\ \E k \in 0 .. Len(peer.wire) :
         /\ \E at \in {Len(<<CR, LF>>), BUF_SIZE - k} :
              conn = [ buf_begin |-> at, buf_end |-> at + k,
                       data |-> SubSeq(peer.wire, 1, k), failed |-> FALSE ]
         /\ net = Socket(SubSeq(peer.wire, k + 1, Len(peer.wire)), peer.shut)
    /\ body = [ chunked |-> peer.chunked, body_size |-> peer.body_size,
                body_read |-> 0, chunk_size |-> 0 ]
    /\ out = <<>>
    /\ rd = NoRead
    /\ sawerr = FALSE
    /\ hdr = NoHeader
    /\ tx = NoSend
    /\ hb = NoBlock

\* The end of __http_simple_request(): the first chunk of a chunked response
\* is loaded, and the request fails if that fails.
FirstChunk ==
    /\ bpc = "headers"
    /\ \E q \in IF body.chunked = 1
                THEN load_chunk([conn |-> conn, net |-> net, err |-> ""], body)
                ELSE { [ s |-> [conn |-> conn, net |-> net, err |-> ""],
                         b |-> body, ok |-> TRUE, end |-> "ok" ] } :
         /\ bpc' = AfterCall(q.end, q.ok)
         /\ conn' = q.s.conn
         /\ net' = q.s.net
         /\ body' = q.b
         /\ last_error' = IF q.s.err = "" THEN last_error ELSE q.s.err
    /\ UNCHANGED << out, rd, sawerr, peer, hdr, tx, hb >>
    /\ UNCHANGED chase_rest

\* One call of http_response_read() with a buffer of len bytes.
ResponseRead ==
    /\ bpc = "ready"
    /\ \E len \in 1 .. MaxLen :
         \E r \in http_response_read([conn |-> conn, net |-> net, err |-> ""],
                                     body, len) :
           /\ bpc' = AfterCall(r.end, TRUE)
           /\ conn' = r.s.conn
           /\ net' = r.s.net
           /\ body' = r.b
           /\ last_error' = IF r.s.err = "" THEN last_error ELSE r.s.err
           /\ out' = out \o r.got
           /\ rd' = [ any |-> TRUE, len |-> len, ret |-> r.ret,
                      from |-> Len(out),
                      done |-> (body.chunked = 1 /\ body.chunk_size = 0),
                      chunk |-> body.chunk_size,
                      pos |-> Len(peer.wire) - Len(conn.data)
                              - Len(net.data) ]
           /\ sawerr' = (sawerr \/ (rd.any /\ rd.ret = -1))
    /\ UNCHANGED << peer, hdr, tx, hb >>
    /\ UNCHANGED chase_rest

\* http_response_destroy(): the socket is closed and the buffer freed.
ResponseDestroy ==
    /\ bpc = "ready"
    /\ bpc' = "closed"
    /\ UNCHANGED << conn, net, body, out, rd, sawerr, peer, hdr, tx, hb,
                    last_error >>
    /\ UNCHANGED chase_rest

NextBody == FirstChunk \/ ResponseRead \/ ResponseDestroy

SpecBody == InitBody /\ [][NextBody]_vars

\* ------------------------------------------------------------- claims: body
IsPrefix(a, b) == Len(a) <= Len(b) /\ a = SubSeq(b, 1, Len(a))

\* C4: for a non-chunked response with Content-Length N > 0 whose peer
\* delivers exactly N body bytes, and no receive failure, the reads hand the
\* caller the N bytes in order: every read returns the number of bytes it
\* handed over, at least one while fewer than N were delivered and 0 once all
\* N were, and body_read counts the bytes delivered and never exceeds body_size.
C4_FixedLengthDelivered ==
    (peer.chunked = 0 /\ peer.body_size > 0 /\ peer.complete /\ ~ conn.failed)
    => /\ bpc \in {"headers", "ready", "closed"}
       /\ IsPrefix(out, peer.payload)
       /\ body.body_read = Len(out)
       /\ body.body_read <= body.body_size
       /\ rd.any => /\ rd.ret = Len(out) - rd.from
                    /\ rd.ret = min(rd.len, body.body_size - rd.from)

C4_Witness ==
    /\ peer.chunked = 0 /\ peer.body_size = MaxBody /\ peer.complete
    /\ ~ peer.shut /\ ~ conn.failed
    /\ out = peer.payload
    /\ rd.any /\ rd.ret = 0 /\ rd.from = MaxBody

\* C5 (as claimed): for a well-formed chunked body and no receive failure, the
\* reads hand the caller the chunks' bytes in order and none reports an error;
\* a read returns 0 exactly when all the bytes were delivered before it, and
\* every read after the zero-size chunk was loaded returns 0.
C5_ChunkedDelivered ==
    (peer.chunked = 1 /\ peer.complete /\ ~ conn.failed)
    => /\ bpc \in {"headers", "ready", "closed"}
       /\ IsPrefix(out, peer.payload)
       /\ rd.any => /\ rd.ret # -1
                    /\ rd.ret = Len(out) - rd.from
                    /\ (rd.ret = 0) = (rd.from = Len(peer.payload))
                    /\ rd.done => rd.ret = 0

\* C6 (as claimed): when the peer's chunked body stops before the zero-size
\* chunk, no read returns 0, the clean end of the body.
C6_TruncatedNeverCleanEnd ==
    (peer.chunked = 1 /\ peer.truncated /\ rd.any) => rd.ret # 0

\* C7: for a non-chunked response, a read returns 0 only when body_read equals
\* body_size or the size is unknown; when the peer shut down after fewer than
\* the announced N > 0 bytes and all of them were handed over, the next read,
\* which finds the end of the stream, returns -1 with the error "Response body
\* shorter than announced".
C7_ShortBodyIsError ==
    (peer.chunked = 0 /\ rd.any)
    => /\ rd.ret = 0 => (body.body_size = 0 \/ body.body_read = body.body_size)
       /\ ( peer.body_size > 0 /\ peer.truncated /\ ~ conn.failed
            /\ rd.from = Len(peer.wire) )
          => /\ rd.ret = -1
             /\ last_error = "Response body shorter than announced"

\* The bytes of the peer's stream behind the first k.
WireAfter(k) == SubSeq(peer.wire, k + 1, Len(peer.wire))

\* The stream goes on with CR LF and a line that parse_size() takes as a
\* hexadecimal number.
GoodChunkEnd(rest) ==
    /\ Len(rest) >= 2 /\ rest[1] = CR /\ rest[2] = LF
    /\ LET tail == SubSeq(rest, 3, Len(rest))
           lf == memchr(tail, LF)
           raw == IF lf > 0 THEN SubSeq(tail, 1, lf - 1) ELSE tail
           line == IF raw # <<>> /\ raw[Len(raw)] = CR
                   THEN SubSeq(raw, 1, Len(raw) - 1) ELSE raw
       IN  Len(line) < CHUNK_LINE_SIZE /\ parse_size(line, 16) >= 0

\* C27 (as claimed): a chunked read hands over at most the bytes that remain
\* of the current chunk, and never fewer than the clamped length unless it
\* returns -1; when it takes the last bytes of a chunk and the stream does not
\* go on with CR LF and a parseable size line, it returns -1.
C27_ChunkedReadChecks ==
    (peer.chunked = 1 /\ rd.any)
    => /\ rd.ret <= rd.chunk
       /\ rd.ret = Len(out) - rd.from \/ rd.ret = -1
       /\ rd.ret >= 0 => rd.ret = min(rd.len, rd.chunk)
       /\ ( /\ rd.chunk > 0 /\ rd.len >= rd.chunk /\ ~ conn.failed
            /\ Len(WireAfter(rd.pos)) >= rd.chunk
            /\ ~ GoodChunkEnd(WireAfter(rd.pos + rd.chunk)) )
          => (bpc \notin {"aborted", "crashed"} /\ rd.ret = -1)

C7_Witness ==
    /\ peer.chunked = 0 /\ peer.body_size = MaxBody /\ peer.truncated
    /\ ~ conn.failed
    /\ Len(peer.wire) > 0 /\ out = peer.wire
    /\ rd.any /\ rd.from = Len(peer.wire) /\ rd.ret = -1
    /\ last_error = "Response body shorter than announced"

\* The bytes of the peer's body the connection has taken from its buffer.
Consumed ==
    SubSeq(peer.wire, 1, Len(peer.wire) - Len(conn.data) - Len(net.data))

\* Without(l, ch) is l less a final ch.
Without(l, ch) ==
    IF l # <<>> /\ l[Len(l)] = ch THEN SubSeq(l, 1, Len(l) - 1) ELSE l

\* c ends with a size line of value zero: the line starts c or follows an LF,
\* and ends with LF or, where the stream ended or failed in it, with c.
ZeroLineAtEnd(c) ==
    \E k \in 1 .. Len(c) :
      /\ k = 1 \/ c[k - 1] = LF
      /\ LET l == Without(SubSeq(c, k, Len(c)), LF)
         IN  memchr(l, LF) = 0 /\ parse_size(Without(l, CR), 16) = 0

\* C34 (as claimed): once a call of http_response_read() on a response has
\* returned -1, no later call on it returns 0; and a call on a chunked
\* response returns 0 only when the last bytes taken from the connection are
\* a whole size line of value zero.
C34_NoCleanEndAfterError ==
    rd.any
    => /\ sawerr => rd.ret # 0
       /\ (peer.chunked = 1 /\ rd.ret = 0) => ZeroLineAtEnd(Consumed)

\* ============================================================== Part III
\* The status line: parse_status() over the characters of the line that
\* recv_header_line() stored in buf, and http_simple_request() with a peer
\* that answers with that line and no header.  A character is a string of
\* length one, or one of the names below.

\* ------------------------------------------------------------- values: status
NUL == "NUL"
HT == "HT"
VT == "VT"
FF == "FF"

isspace(c) == c \in {" ", HT, LF, VT, FF, CR}

isdigit(c) == DigitVal(c, 10) >= 0

\* The string a char* points to: the bytes before the first NUL.
cstr(bytes) ==
    IF memchr(bytes, NUL) > 0 THEN SubSeq(bytes, 1, memchr(bytes, NUL) - 1)
    ELSE bytes

\* str[k], 1-based; the terminating NUL behind the last character.
At(str, k) == IF k <= Len(str) THEN str[k] ELSE NUL

\* 0 iff the first n characters are equal ignoring case.
strncasecmp(a, b, n) ==
    IF \A k \in 1 .. n : tolower(At(a, k)) = tolower(At(b, k)) THEN 0 ELSE 1

strncmp(a, b, n) ==
    IF \A k \in 1 .. n : At(a, k) = At(b, k) THEN 0 ELSE 1

\* findspace(str + k - 1): the position of the first white space or the NUL.
findspace(str, k) ==
    CHOOSE j \in k .. Len(str) + 1 :
      /\ j = Len(str) + 1 \/ isspace(str[j])
      /\ \A m \in k .. j - 1 : ~ isspace(str[m])

\* skipspaces(str + k - 1): the position of the first character that is not
\* white space.
skipspaces(str, k) ==
    CHOOSE j \in k .. Len(str) + 1 :
      /\ j = Len(str) + 1 \/ ~ isspace(str[j])
      /\ \A m \in k .. j - 1 : isspace(str[m])

\* The position behind the digits that start at k.
DigitsEnd(str, k) ==
    CHOOSE j \in k .. Len(str) + 1 :
      /\ j = Len(str) + 1 \/ ~ isdigit(str[j])
      /\ \A m \in k .. j - 1 : isdigit(str[m])

RECURSIVE DecVal(_, _, _)
DecVal(str, from, to) ==
    IF to <= from THEN 0
    ELSE DecVal(str, from, to - 1) * 10 + DigitVal(str[to - 1], 10)

\* strtol(str + k - 1, &p, 10): [val, end], end the position p points to.
\* White space is skipped and a sign accepted; without a digit nothing is
\* converted and p is where the conversion started.
strtol(str, k) ==
    LET s0 == skipspaces(str, k)
        d0 == IF At(str, s0) \in {"+", "-"} THEN s0 + 1 ELSE s0
        e == DigitsEnd(str, d0)
        v == DecVal(str, d0, e)
    IN  IF e = d0 THEN [val |-> 0, end |-> k]
        ELSE [val |-> IF At(str, s0) = "-" THEN 0 - v ELSE v, end |-> e]

\* The test parse_status() makes of the converted status code: len is p - str.
status_any_length(len, c, status) == ~ isspace(c) \/ status < 100

status_invalid(len, c, status) == len # 3 \/ ~ isspace(c) \/ status < 100

\* parse_status(): what it stores and returns for the string in buf.
parse_status(buf) ==
    LET str == cstr(buf)
        fail(ver, st, e) ==
            [ok |-> FALSE, version |-> ver, status |-> st, reason |-> <<>>,
             err |-> e]
        p == findspace(str, 6)
        vs == SubSeq(str, 6, p - 1)
        version == IF p - 6 # 3 THEN -1
                   ELSE IF strncmp(vs, <<"1", ".", "1">>, 3) = 0 THEN 11
                   ELSE IF strncmp(vs, <<"1", ".", "0">>, 3) = 0 THEN 10
                   ELSE IF strncmp(vs, <<"0", ".", "9">>, 3) = 0 THEN 9
                   ELSE -1
        s1 == skipspaces(str, p)
        num == strtol(str, s1)
        s2 == skipspaces(str, num.end)
    IN  IF strncasecmp(str, <<"H", "T", "T", "P", "/">>, 5) # 0
        THEN fail(0, 0, "Invalid response status")
        ELSE IF version < 0
        THEN fail(version, 0, "Invalid response: Unknown protocol version")
        ELSE IF status_invalid(num.end - s1, At(str, num.end), num.val)
        THEN fail(version, num.val, "Invalid response status")
        ELSE IF At(str, s2) = NUL
        THEN fail(version, num.val, "Invalid response: Reason message missing")
        ELSE [ ok |-> TRUE, version |-> version, status |-> num.val,
               reason |-> SubSeq(str, s2, Len(str)), err |-> "" ]

\* ------------------------------------------------------------- peers: status
\* The status lines peers send, by their parts: the protocol name, the
\* version, white space, the status code, white space, the reason phrase.
StatusNames ==
    { <<"H", "T", "T", "P", "/">>, <<"h", "t", "t", "p", "/">>, <<"H", "t", "T", "p", "/">>, <<"F", "O", "O">>, <<"H", "T", "T", "P">> }

StatusVersions ==
    { <<"1", ".", "1">>, <<"1", ".", "0">>, <<"0", ".", "9">>, <<"2", ".", "0">>, <<"1", ".">>, <<"1", ".", "1", "0">> }

StatusGaps == { <<" ">>, <<>>, <<" ", HT>> }

StatusCodes ==
    { <<"2", "0", "0">>, <<"3", "0", "2">>, <<"1", "0", "0">>, <<"9", "9", "9">>, <<"0", "9", "9">>, <<"2", "0">>, <<"2", "0", "0", "0">>, <<"+", "2", "0">>, <<"-", "2", "0">>, <<"2", "x", "0">> }

StatusReasons == { <<"O", "K">>, <<>>, <<"O", NUL, "K">> }

StatusLines ==
    { n \o v \o g1 \o c \o g2 \o r :
        n \in StatusNames, v \in StatusVersions, g1 \in StatusGaps,
        c \in StatusCodes, g2 \in StatusGaps, r \in StatusReasons }

\* ------------------------------------------------------------- actions: status
\* download_http() is about to call http_simple_request(); the peer will
\* answer with one of the status lines and an empty line.
InitStatus ==
    /\ pc = "idle"
    /\ info = http_request_info(HostA, -1, NULL, FALSE, 0, NoRange)
    /\ i = info
    /\ url = NullUrl
    /\ resp = NoResponse
    /\ ret = FALSE
    /\ last_error = ""
    /\ nattempts = 0
    /\ lastreq = NoRequest
    /\ lastsrv = NoServer
    /\ lastret = FALSE
    /\ all3xx = TRUE
    /\ redir = NoRedirect
    /\ live = NoneLive
    /\ bpc = "none"
    /\ conn = NoConnection
    /\ net = Socket(<<>>, TRUE)
    /\ body = NoBody
    /\ out = <<>>
    /\ rd = NoRead
    /\ sawerr = FALSE
    /\ peer = NoPeer
    /\ tx = NoSend
    /\ hb = NoBlock
    /\ \E l \in StatusLines :
         hdr = [NoHeader EXCEPT !.sent = l, !.phase = "status"]

\* The peer of an attempt that connects and whose response has the given
\* status and no header.
StatusServer(st) ==
    [ kind |-> "ok", status |-> st, location |-> NullUrl,
      cr |-> NoContentRange, cands |-> <<"ok">> ]

\* One iteration of http_simple_request()'s loop with that peer: the request
\* is sent, recv_response() receives the status line whole and parses it, and
\* on failure the response is destroyed.
StatusAttempt ==
    /\ pc = "loop"
    /\ nattempts < MaxAttempts
    /\ \E hv \in ReadHost(i.host) :
         LET st == parse_status(hdr.sent)
             srv == StatusServer(IF st.ok THEN st.status ELSE 0)
             r == IF st.ok
                  THEN [ret |-> TRUE, resp |-> recv_response(srv), err |-> "",
                        req |-> send_request(i, hv)]
                  ELSE [ret |-> FALSE, resp |-> NoResponse, err |-> st.err,
                        req |-> send_request(i, hv)]
         IN  \E n \in chase_after(i, url, r) :
               /\ pc' = n.pc
               /\ i' = n.i
               /\ url' = n.url
               /\ resp' = n.resp
               /\ ret' = n.ret
               /\ last_error' = IF r.err = "" THEN last_error ELSE r.err
               /\ nattempts' = nattempts + 1
               /\ lastreq' = r.req
               /\ lastsrv' = srv
               /\ lastret' = r.ret
               /\ all3xx' = FALSE
               /\ live' = attempt_strings(
                             attempt_resources(live, srv, r.ret, n.pc),
                             url, srv, r.ret, n.pc)
               /\ hdr' = [ hdr EXCEPT !.line = cstr(hdr.sent),
                                      !.n = Len(cstr(hdr.sent)),
                                      !.ok = TRUE, !.calls = 1,
                                      !.parsed = st ]
    /\ UNCHANGED << info, redir >>
    /\ UNCHANGED << bpc, conn, net, body, out, rd, sawerr, peer, tx, hb >>

NextStatus == Call \/ StatusAttempt \/ CallerCheck \/ Destroy

SpecStatus == InitStatus /\ [][NextStatus]_vars

\* ------------------------------------------------------------- claims: status
\* The status lines of the claimed form: "HTTP/" in any case, one of the
\* versions 0.9, 1.0 and 1.1, white space, three digits making a number of
\* 100 to 999, white space, and a reason phrase that is not empty.  a is where
\* the code starts and b where the reason phrase does.
StatusLineForm(line, a, b) ==
    /\ Len(line) >= b
    /\ Lower(SubSeq(line, 1, 5)) = <<"h", "t", "t", "p", "/">>
    /\ SubSeq(line, 6, 8) \in { <<"1", ".", "1">>, <<"1", ".", "0">>, <<"0", ".", "9">> }
    /\ a > 9 /\ \A k \in 9 .. a - 1 : isspace(line[k])
    /\ \A k \in a .. a + 2 : isdigit(line[k])
    /\ line[a] # "0"
    /\ b > a + 3 /\ \A k \in a + 3 .. b - 1 : isspace(line[k])

WellFormedStatus(line) ==
    \E a \in 10 .. Len(line), b \in 14 .. Len(line) : StatusLineForm(line, a, b)

ProtocolErrors ==
    { "Invalid response status",
      "Invalid response: Unknown protocol version",
      "Invalid response: Reason message missing" }

\* C18: a status line is accepted only if it has the form "HTTP/" (in any
\* case), version 0.9, 1.0 or 1.1, white space, a three-digit status code of
\* 100 to 999, white space, non-empty reason phrase, and then the response
\* carries that code; for every other status line http_simple_request
\* returns false with a protocol error in last_error and the response
\* destroyed.
C18_StatusLineAccepted ==
    nattempts > 0 =>
        /\ lastret =>
             /\ WellFormedStatus(hdr.sent)
             /\ \E a \in 10 .. Len(hdr.sent) :
                  /\ \A k \in 9 .. a - 1 : isspace(hdr.sent[k])
                  /\ a + 2 <= Len(hdr.sent)
                  /\ \A k \in a .. a + 2 : isdigit(hdr.sent[k])
                  /\ hdr.parsed.status = DecVal(hdr.sent, a, a + 3)
             /\ pc # "closed" => resp.status = hdr.parsed.status
             /\ hdr.parsed.status \in 100 .. 999
             /\ hdr.parsed.reason # <<>>
        /\ ~ WellFormedStatus(hdr.sent) =>
             /\ ~ lastret /\ ~ ret
             /\ resp = NoResponse
             /\ last_error \in ProtocolErrors
             /\ pc \in {"done", "exit_error"}

C18_Witness ==
    /\ pc = "exit_error"
    /\ hdr.sent = <<"H", "T", "T", "P", "/", "2", ".", "0", " ",
                    "2", "0", "0", " ", "O", "K">>
    /\ last_error = "Invalid response: Unknown protocol version"

\* ============================================================== Part IV
\* Receiving the lines of the response header: recv_header_line() over the
\* bytes of the peer's stream, in recv_response().  The line buffer is scaled
\* down; BUF_SIZE, which stays larger than it as in the source, is not.

\* ------------------------------------------------------------- bounds: lines
\* The size of recv_response()'s line buffer (2048 in the source).
MaxLine == 4
\* By how many bytes the longest line a peer sends exceeds the line buffer.
MaxOver == 2

\* ------------------------------------------------------------- values: lines
HTTP_LINE_MAX == MaxLine

\* What the buffer offset is after a status line "HTTP/1.1 200 OK" CR LF.
StatusLineSize == 17

\* The characters of the lines: "x:y" is a header no handler is registered
\* for, its prefixes are not headers.
LineChars == <<"x", ":", "y", "z", "w", "v", "u", "t">>

\* recv_header_line(): the outcomes [s, line, n, ok, end, stored].
recv_header_line(s) ==
    { [ s |-> IF r.end = "ok" /\ ~ r.s.conn.failed /\ r.n >= HTTP_LINE_MAX
              THEN set_last_error(r.s, "Invalid response: Header line too long")
              ELSE r.s,
        line |-> r.line, n |-> r.n,
        ok |-> r.end = "ok" /\ ~ r.s.conn.failed /\ r.n < HTTP_LINE_MAX,
        end |-> r.end, stored |-> r.stored ] :
      r \in recv_line(s, HTTP_LINE_MAX) }

\* strstrip(): the string without its leading and trailing white space.
RECURSIVE strstrip(_)
strstrip(str) ==
    IF str = <<>> THEN str
    ELSE IF isspace(Head(str)) THEN strstrip(Tail(str))
    ELSE IF isspace(str[Len(str)]) THEN strstrip(SubSeq(str, 1, Len(str) - 1))
    ELSE str

strempty(str) == str = <<>>

\* parse_header(): [ok, err].
parse_header(buf) ==
    LET str == cstr(buf)
        p == memchr(str, ":")
    IN  IF p = 0
        THEN [ok |-> FALSE, err |-> "Invalid response header: `:' missing"]
        ELSE IF strempty(strstrip(SubSeq(str, 1, p - 1)))
        THEN [ok |-> FALSE,
              err |-> "Invalid response header: Field name missing"]
        ELSE IF strempty(strstrip(SubSeq(str, p + 1, Len(str))))
        THEN [ok |-> FALSE, err |-> "Invalid response header: Value missing"]
        ELSE [ok |-> TRUE, err |-> ""]

\* Where recv_response()'s err_hdrs leaves the caller: resp->reason is freed
\* there and again in destroy_response(); the second free is undefined.
after_err_hdrs == {"failed", "crashed"}

\* ------------------------------------------------------------- peers: lines
\* The line a peer sends: its characters, the terminator (none when the peer
\* stops in the line), the empty line behind it, and whether the peer then
\* shuts the connection down.
LinePeers ==
    { [ sent |-> SubSeq(LineChars, 1, n), wire |-> SubSeq(LineChars, 1, n) \o t,
        term |-> t, shut |-> sh ] :
        n \in 0 .. HTTP_LINE_MAX + MaxOver,
        t \in {<<CR, LF, CR, LF>>, <<LF, CR, LF>>, <<CR, LF>>, <<LF>>, <<>>},
        sh \in BOOLEAN }

\* ------------------------------------------------------------- actions: lines
\* __http_simple_request() has sent the request and calls recv_response()
\* (the line is the status line, nothing is buffered), or recv_response()
\* has parsed the status line (the line is the first header line; the
\* buffer holds the bytes that arrived with the status line's segment, which
\* held nothing before the status line or filled the buffer to its end).
InitLine ==
    /\ pc = "headers"
    /\ info = http_request_info(HostA, -1, NULL, FALSE, 0, NoRange)
    /\ i = info
    /\ url = NullUrl
    /\ resp = NoResponse
    /\ ret = FALSE
    /\ last_error = ""
    /\ nattempts = 0
    /\ lastreq = NoRequest
    /\ lastsrv = NoServer
    /\ lastret = FALSE
    /\ all3xx = TRUE
    /\ redir = NoRedirect
    /\ live = NoneLive
    /\ body = NoBody
    /\ out = <<>>
    /\ rd = NoRead
    /\ sawerr = FALSE
    /\ peer = NoPeer
    /\ tx = NoSend
    /\ hb = NoBlock
    /\ \E l \in LinePeers :
         /\ \/ /\ bpc = "status"
               /\ conn = NoConnection
               /\ net = Socket(l.wire, l.shut)
            \/ /\ bpc = "header"
               /\ \E k \in 0 .. Len(l.wire) :
                    /\ \E at \in {StatusLineSize, BUF_SIZE - k} :
                         conn = [ buf_begin |-> at, buf_end |-> at + k,
                                  data |-> SubSeq(l.wire, 1, k),
                                  failed |-> FALSE ]
                    /\ net = Socket(SubSeq(l.wire, k + 1, Len(l.wire)), l.shut)
         /\ hdr = [ NoHeader EXCEPT !.sent = l.sent, !.phase = bpc,
                                    !.wire = l.wire, !.term = l.term ]

\* recv_response() up to the header loop: the status line is received and
\* parsed; on failure __http_simple_request() destroys the response.
RecvStatusLine ==
    /\ bpc = "status"
    /\ \E r \in recv_header_line([conn |-> conn, net |-> net, err |-> ""]) :
         LET st == IF r.ok THEN parse_status(r.line) ELSE NoStatus
             err == IF r.end # "ok" \/ ~ r.ok THEN r.s.err ELSE st.err
         IN  /\ bpc' = CASE r.end = "abort" -> "aborted"
                         [] r.end = "overflow" -> "crashed"
                         [] ~ st.ok -> "failed"
                         [] OTHER -> "header"
             /\ conn' = r.s.conn
             /\ net' = r.s.net
             /\ last_error' = IF err = "" THEN last_error ELSE err
             /\ hdr' = [ hdr EXCEPT !.line = r.line, !.n = r.n, !.ok = r.ok,
                                    !.calls = @ + 1, !.parsed = st,
                                    !.stored = r.stored, !.end = r.end ]
    /\ UNCHANGED << body, out, rd, sawerr, peer, tx, hb >>
    /\ UNCHANGED chase_rest

\* One iteration of recv_response()'s header loop: a line is received; an
\* empty line ends the header, any other is parsed and handled.  On failure
\* the reason string is freed and __http_simple_request() destroys the
\* response.
RecvHeader ==
    /\ bpc = "header"
    /\ \E r \in recv_header_line([conn |-> conn, net |-> net, err |-> ""]) :
         LET ph == parse_header(r.line)
             bad == ~ r.ok \/ (cstr(r.line) # <<>> /\ ~ ph.ok)
             err == IF r.end # "ok" \/ ~ r.ok THEN r.s.err
                    ELSE IF bad THEN ph.err ELSE ""
         IN  /\ bpc' \in CASE r.end = "abort" -> {"aborted"}
                           [] r.end = "overflow" -> {"crashed"}
                           [] bad -> after_err_hdrs
                           [] cstr(r.line) = <<>> -> {"body"}
                           [] OTHER -> {"header"}
             /\ conn' = r.s.conn
             /\ net' = r.s.net
             /\ last_error' = IF err = "" THEN last_error ELSE err
             /\ hdr' = [ hdr EXCEPT !.line = r.line, !.n = r.n, !.ok = r.ok,
                                    !.calls = @ + 1,
                                    !.stored = r.stored, !.end = r.end ]
    /\ UNCHANGED << body, out, rd, sawerr, peer, tx, hb >>
    /\ UNCHANGED chase_rest

NextLine == RecvStatusLine \/ RecvHeader

SpecLine == InitLine /\ [][NextLine]_vars

\* ------------------------------------------------------------- claims: lines
\* The bytes of the line's wire behind its first LF.
AfterLF(wire) == SubSeq(wire, memchr(wire, LF) + 1, Len(wire))

\* C25 (as claimed): a line shorter than the line buffer that ends with a bare
\* LF or with CR LF, the empty line included, is received without an assertion
\* failure or a crash; recv_line() returns the line's characters, and what
\* stays buffered or unread is what the peer sent behind the LF.
C25_BareLFAccepted ==
    ( /\ hdr.calls = 1 /\ hdr.term # <<>> /\ ~ conn.failed
      /\ Len(hdr.sent) < HTTP_LINE_MAX )
    => /\ bpc \notin {"aborted", "crashed"} \/ hdr.end = "ok"
       /\ hdr.line = hdr.sent /\ hdr.n = Len(hdr.sent)
       /\ conn.data \o net.data = AfterLF(hdr.wire)

\* C30 (as claimed): recv_line() stores no more than buf_size bytes at buf and
\* returns no more than buf_size, whatever the line's length and wherever its
\* LF is when the line is copied.
C30_LineBufferRespected ==
    /\ hdr.stored <= HTTP_LINE_MAX
    /\ hdr.n <= HTTP_LINE_MAX
    /\ hdr.end # "overflow"

\* C31 (as claimed): however the peer's bytes are split into receives, the
\* LF of a line as the first byte of a receive included, no loop iteration of
\* recv_line() copies zero bytes (its assertion holds), and a line that fits
\* in the line buffer with its CR is returned with the same characters and
\* leaves the same bytes for the next line: those the peer sent behind the LF.
C31_SegmentationIndependent ==
    (hdr.calls = 1 /\ ~ conn.failed)
    => /\ hdr.end # "abort"
       /\ ( /\ hdr.end = "ok" /\ hdr.term # <<>>
            /\ memchr(hdr.wire, LF) - 1 <= HTTP_LINE_MAX )
          => /\ hdr.line = hdr.sent
             /\ conn.data \o net.data = AfterLF(hdr.wire)

\* The bytes of the peer's lines the connection has taken from its buffer.
LinesConsumed ==
    SubSeq(hdr.wire, 1, Len(hdr.wire) - Len(conn.data) - Len(net.data))

\* c ends with an empty line: CR LF or LF at the start of c or behind an LF.
EmptyLineAtEnd(c) ==
    \E k \in 1 .. Len(c) :
      /\ k = 1 \/ c[k - 1] = LF
      /\ SubSeq(c, k, Len(c)) \in {<<CR, LF>>, <<LF>>}

\* C35 (as claimed): recv_response() ends the header block and succeeds only
\* when the last bytes it took from the peer are an empty line; where the
\* peer shut down before sending one, behind the status line or in or behind
\* a header line, it fails.
C35_EmptyLineRequired ==
    (hdr.phase = "header" /\ bpc = "body") => EmptyLineAtEnd(LinesConsumed)

\* C19 (as claimed): when the line the peer sends has HTTP_LINE_MAX or more
\* characters before its terminator and no receive fails, the call of
\* recv_header_line() that meets it fails with the error "Invalid response:
\* Header line too long" and the request fails.
C19_LongLineRejected ==
    (hdr.calls = 1 /\ Len(hdr.sent) >= HTTP_LINE_MAX /\ ~ conn.failed)
    => /\ bpc = "failed"
       /\ ~ hdr.ok
       /\ last_error = "Invalid response: Header line too long"

\* ============================================================== Part V
\* Sending the request: send_request() over buffered_send(), flush_buffer()
\* and do_send(), byte by byte, with the connection buffer at its real size.

\* ------------------------------------------------------------- bounds: sending
\* Longest credentials, in bytes.
MaxCred == 4
\* How many times over the longest path fills the connection buffer.
MaxFill == 2

\* ------------------------------------------------------------- values: sending
\* The bytes credentials are made of: a control character, ':', 'u' and 0xff.
CredAlphabet == {1, 58, 117, 255}

CredStrings == UNION { [1 .. n -> CredAlphabet] : n \in 0 .. MaxCred }

CRLF == <<CR, LF>>

\* What printf's %d and %zu give for a number that is not negative.
RECURSIVE utoa(_)
utoa(n) ==
    IF n < 10 THEN <<HexDigits[n + 1]>>
    ELSE utoa(n \div 10) \o <<HexDigits[(n % 10) + 1]>>

\* snprintf(buf, size, ...): the string left in buf.
snprintf(size, str) == SubSeq(str, 1, min(Len(str), size - 1))

\* A path of n characters.
PathOf(n) == <<"/">> \o [j \in 1 .. n - 1 |-> "a"]

\* The decimal numeral of SIZE_MAX where size_t has 64 bits.
SizeMaxDigits ==
    << "1", "8", "4", "4", "6", "7", "4", "4", "0", "7",
       "3", "7", "0", "9", "5", "5", "1", "6", "1", "5" >>

\* The ranges asked for, as the decimal numerals of range_first and
\* range_last: from byte 1 on, bytes 0 to 9, the last of 10^12 bytes of a file
\* of 2 * 10^12, and from byte 10^19 on.
RangePairs ==
    { <<<<"1">>, SizeMaxDigits>>,
      <<<<"0">>, <<"9">>>>,
      << <<"1">> \o [j \in 1 .. 12 |-> "0"], <<"1">> \o [j \in 1 .. 12 |-> "9"] >>,
      << <<"1">> \o [j \in 1 .. 19 |-> "0"], SizeMaxDigits >> }

\* The request of a caller, its strings as characters and its offsets as
\* numerals: [command, path, host, port, auth, creds, want_range,
\* range_first, range_last].
send_info(n, port, auth, creds, want_range, range) ==
    [ command |-> <<"G", "E", "T">>, path |-> PathOf(n),
      host |-> <<"h", "a">>, port |-> port, auth |-> auth, creds |-> creds,
      want_range |-> want_range, range_first |-> range[1],
      range_last |-> range[2] ]

\* The number of bytes of the shortest request with a path of no character.
PlainRequestSize == 46

\* Path lengths around the sizes at which a request fills the buffer, and one
\* that fills it several times.
PathLens ==
    {1, 2} \cup { BUF_SIZE - PlainRequestSize + d : d \in {-1, 0, 1} }
    \cup { BUF_SIZE - d : d \in {0, 2, 20} }
    \cup { (MaxFill * BUF_SIZE) + 1 }

\* The requests sent: every credential string with a short path, and every
\* path length with and without port, credentials and range.
SendInfoSet ==
    { send_info(1, -1, TRUE, c, 0, <<<<"0">>, <<"0">>>>) : c \in CredStrings }
    \cup
    { send_info(n, port, auth, <<117, 58, 255>>, w, <<<<"1">>, SizeMaxDigits>>) :
        n \in PathLens, port \in {-1, 81}, auth \in BOOLEAN, w \in {0, 1} }
    \cup
    { send_info(1, port, FALSE, <<>>, 1, r) :
        port \in {-1, 81}, r \in RangePairs }

\* ------------------------------------------------------------- send_request()
\* send_line(): the strings it passes to send_str().
send_line(strs) == strs \o <<CRLF>>

send_header(field, value) == send_line(<<field, <<":", " ">>, value>>)

\* send_host_header()'s strings; buf stays "" without a port.
host_header_strs(host, port) ==
    send_line(<< <<"H", "o", "s", "t", ":", " ">>, host,
                 IF port >= 0 THEN snprintf(16, <<":">> \o utoa(port))
                 ELSE <<>> >>)

\* send_auth_header()'s strings.
auth_header_strs(creds) ==
    send_header(<<"A", "u", "t", "h", "o", "r", "i", "z", "a", "t", "i", "o", "n">>,
                <<"B", "a", "s", "i", "c", " ">> \o auth_value(creds).encoded)

\* send_range_header()'s strings: the value is formatted into buf[32];
\* first and last are the numerals %zu gives.
range_header_strs(first, last) ==
    send_header(<<"R", "a", "n", "g", "e">>,
                snprintf(32, <<"b", "y", "t", "e", "s", "=">> \o first
                             \o <<"-">>
                             \o (IF last # SizeMaxDigits THEN last ELSE <<>>)))

\* The strings send_request() passes to send_str(), in order.
request_strs(inf) ==
    send_line(<< inf.command, <<" ">>, inf.path,
                 <<" ", "H", "T", "T", "P", "/", "1", ".", "1">> >>)
    \o host_header_strs(inf.host, inf.port)
    \o (IF inf.auth THEN auth_header_strs(inf.creds) ELSE <<>>)
    \o send_header(<<"C", "o", "n", "n", "e", "c", "t", "i", "o", "n">>,
                   <<"c", "l", "o", "s", "e">>)
    \o (IF inf.want_range = 1
        THEN range_header_strs(inf.range_first, inf.range_last) ELSE <<>>)
    \o send_line(<<>>)

\* do_send() without its loop: one send(), which may write a part.
do_send_once(s, buf) ==
    IF skips_io(s.conn) \/ buf = <<>> THEN {s}
    ELSE { [s EXCEPT !.net.wire = @ \o SubSeq(buf, 1, j)] :
             j \in {Len(buf), (Len(buf) + 1) \div 2} }

\* do_send(): the outcomes.  The loop writes all of buf, or a part of it
\* before a send() fails.
do_send(s, buf) ==
    IF skips_io(s.conn) \/ buf = <<>> THEN {s}
    ELSE LET Sent(j) == [s EXCEPT !.net.wire = @ \o SubSeq(buf, 1, j),
                                  !.net.late = @ \/ s.conn.failed]
         IN  { Sent(Len(buf)) }
             \cup
             { [Sent(j) EXCEPT !.conn.failed = TRUE, !.err = "Send failed"] :
                 j \in {0, Len(buf) \div 2} }

\* copy_to_buffer() without the limit of the space left.
copy_to_buffer_all(s, buf) ==
    [ s |-> [s EXCEPT !.conn.buf_end = @ + Len(buf), !.conn.data = @ \o buf],
      n |-> Len(buf) ]

\* copy_to_buffer(): [s, n].
copy_to_buffer(s, buf) ==
    LET n == min(BUF_LEFT(s.conn), Len(buf))
    IN  [ s |-> [s EXCEPT !.conn.buf_end = @ + n,
                          !.conn.data = @ \o SubSeq(buf, 1, n)],
          n |-> n ]

\* flush_buffer(): the outcomes.  The bytes between buf_begin and buf_end are
\* handed to do_send() and the buffer is emptied, sent or not.
flush_buffer(s) ==
    LET writes == ~ skips_io(s.conn) /\ BUF_USED(s.conn) > 0
        log == IF writes
               THEN [s EXCEPT !.net.flushes =
                                  Append(@, s.conn.buf_end = BUF_SIZE)]
               ELSE s
    IN  { [f EXCEPT !.conn.buf_begin = 0, !.conn.buf_end = 0,
                    !.conn.data = <<>>] :
            f \in do_send(log, s.conn.data) }

\* buffered_send(): the outcomes.
RECURSIVE buffered_send(_, _)
buffered_send(s, buf) ==
    IF s.conn.failed \/ buf = <<>> THEN {s}
    ELSE LET c == copy_to_buffer(s, buf)
         IN  IF c.n = 0
             THEN UNION { buffered_send(f, buf) : f \in flush_buffer(s) }
             ELSE buffered_send(c.s, SubSeq(buf, c.n + 1, Len(buf)))

send_str(s, str) == buffered_send(s, str)

\* ------------------------------------------------------------- actions: sending
\* __http_simple_request() has connected and calls send_request().
InitSend ==
    /\ pc = "request"
    /\ info = http_request_info(HostA, -1, NULL, FALSE, 0, NoRange)
    /\ i = info
    /\ url = NullUrl
    /\ resp = NoResponse
    /\ ret = FALSE
    /\ last_error = ""
    /\ nattempts = 0
    /\ lastreq = NoRequest
    /\ lastsrv = NoServer
    /\ lastret = FALSE
    /\ all3xx = TRUE
    /\ redir = NoRedirect
    /\ live = NoneLive
    /\ bpc = "sending"
    /\ conn = NoConnection
    /\ net = Socket(<<>>, FALSE)
    /\ body = NoBody
    /\ out = <<>>
    /\ rd = NoRead
    /\ sawerr = FALSE
    /\ peer = NoPeer
    /\ hdr = NoHeader
    /\ \E inf \in SendInfoSet :
         tx = [ NoSend EXCEPT !.strs = request_strs(inf), !.auth = inf.auth,
                              !.creds = inf.creds, !.inf = inf ]
    /\ hb = NoBlock

\* The next send_str() of send_request().
SendStr ==
    /\ bpc = "sending"
    /\ tx.k < Len(tx.strs)
    /\ \E r \in send_str([conn |-> conn, net |-> net, err |-> ""],
                         tx.strs[tx.k + 1]) :
         /\ conn' = r.conn
         /\ net' = r.net
         /\ last_error' = IF r.err = "" THEN last_error ELSE r.err
    /\ tx' = [tx EXCEPT !.k = @ + 1]
    /\ UNCHANGED << bpc, body, out, rd, sawerr, peer, hdr, hb >>
    /\ UNCHANGED chase_rest

\* The end of send_request(): the final flush_buffer() and the return of
\* !conn->failed.
SendFlush ==
    /\ bpc = "sending"
    /\ tx.k = Len(tx.strs)
    /\ \E r \in flush_buffer([conn |-> conn, net |-> net, err |-> ""]) :
         /\ conn' = r.conn
         /\ net' = r.net
         /\ last_error' = IF r.err = "" THEN last_error ELSE r.err
         /\ bpc' = IF r.conn.failed THEN "failed" ELSE "sent"
         /\ tx' = [tx EXCEPT !.flushed = TRUE, !.ret = ~ r.conn.failed]
    /\ UNCHANGED << body, out, rd, sawerr, peer, hdr, hb >>
    /\ UNCHANGED chase_rest

NextSend == SendStr \/ SendFlush

SpecSend == InitSend /\ [][NextSend]_vars

\* ------------------------------------------------------------- claims: sending
\* The base64 alphabet of RFC 4648, written out apart from the encoder.
Rfc4648Alphabet ==
    << "A", "B", "C", "D", "E", "F", "G", "H", "I", "J", "K", "L", "M",
       "N", "O", "P", "Q", "R", "S", "T", "U", "V", "W", "X", "Y", "Z" >>
    \o << "a", "b", "c", "d", "e", "f", "g", "h", "i", "j", "k", "l", "m",
          "n", "o", "p", "q", "r", "s", "t", "u", "v", "w", "x", "y", "z" >>
    \o SubSeq(HexDigits, 1, 10) \o <<"+", "/">>

Base64Value(ch) == CHOOSE v \in 0 .. 63 : Rfc4648Alphabet[v + 1] = ch

IsBase64Char(ch) == \E v \in 0 .. 63 : Rfc4648Alphabet[v + 1] = ch

\* A padded base64 text: groups of four characters, '=' only as the last one
\* or two characters of the last group.
WellFormedBase64(p) ==
    /\ Len(p) % 4 = 0
    /\ \A k \in 1 .. Len(p) :
          \/ IsBase64Char(p[k])
          \/ p[k] = "=" /\ k >= Len(p) - 1 /\ p[Len(p)] = "="

\* The reference decoder: the bytes a padded base64 text stands for.
RECURSIVE Base64Decode(_)
Base64Decode(p) ==
    IF Len(p) < 4 THEN <<>>
    ELSE LET v1 == Base64Value(p[1])
             v2 == Base64Value(p[2])
             b1 == (v1 * 4) + (v2 \div 16)
         IN  IF p[3] = "=" THEN <<b1>>
             ELSE LET v3 == Base64Value(p[3])
                      b2 == ((v2 % 16) * 16) + (v3 \div 4)
                  IN  IF p[4] = "=" THEN <<b1, b2>>
                      ELSE <<b1, b2, ((v3 % 4) * 64) + Base64Value(p[4])>>
                           \o Base64Decode(SubSeq(p, 5, Len(p)))

\* Where the Authorization header's value is among the strings of a request
\* with credentials.
AuthValueAt == 12

\* C21: the value of the Authorization header is "Basic " followed by the
\* standard padded base64 of the credential bytes: its length is
\* 4 * ceil(n / 3) for n bytes, and the reference decoder gives the
\* credentials back.
C21_BasicPayloadIsBase64 ==
    tx.auth
    => LET v == tx.strs[AuthValueAt]
           payload == SubSeq(v, 7, Len(v))
       IN  /\ SubSeq(v, 1, 6) = <<"B", "a", "s", "i", "c", " ">>
           /\ auth_value(tx.creds).nul
           /\ Len(payload) = 4 * ((Len(tx.creds) + 2) \div 3)
           /\ WellFormedBase64(payload)
           /\ Base64Decode(payload) = tx.creds

C21_Witness ==
    /\ tx.auth /\ tx.flushed /\ tx.ret
    /\ tx.creds = <<255, 58, 1, 117>>
    /\ SubSeq(net.wire, 48, 55) = <<"/", "z", "o", "B", "d", "Q", "=", "=">>

\* The bytes of a request as C16 describes them.
RequestAsClaimed(inf) ==
    inf.command \o <<" ">> \o inf.path
    \o <<" ", "H", "T", "T", "P", "/", "1", ".", "1", CR, LF>>
    \o <<"H", "o", "s", "t", ":", " ">> \o inf.host
    \o (IF inf.port >= 0 THEN <<":">> \o utoa(inf.port) ELSE <<>>)
    \o <<CR, LF>>
    \o (IF inf.auth
        THEN << "A", "u", "t", "h", "o", "r", "i", "z", "a", "t", "i", "o", "n",
                ":", " ", "B", "a", "s", "i", "c", " " >>
             \o auth_value(inf.creds).encoded \o <<CR, LF>>
        ELSE <<>>)
    \o << "C", "o", "n", "n", "e", "c", "t", "i", "o", "n", ":", " ",
          "c", "l", "o", "s", "e", CR, LF >>
    \o (IF inf.want_range = 1
        THEN <<"R", "a", "n", "g", "e", ":", " ", "b", "y", "t", "e", "s", "=">>
             \o inf.range_first \o <<"-">>
             \o (IF inf.range_last # SizeMaxDigits THEN inf.range_last
                 ELSE <<>>)
             \o <<CR, LF>>
        ELSE <<>>)
    \o <<CR, LF>>

\* C16 (as claimed), on the wire: the bytes of a request sent in full are the
\* request line, the Host header with ':port' iff port >= 0, the
\* Authorization header iff credentials are set, 'Connection: close', the
\* Range header 'bytes=first-last' ('bytes=first-' when last is SIZE_MAX) iff
\* want_range, and an empty line, the same for the same request.
C16_RequestOnWire ==
    (tx.flushed /\ tx.ret) => net.wire = RequestAsClaimed(tx.inf)

\* All the strings of strs, one after the other.
RECURSIVE Flatten(_)
Flatten(strs) == IF strs = <<>> THEN <<>> ELSE Head(strs) \o Flatten(Tail(strs))

\* C24: before the final flush the socket is written only with a full buffer
\* (buf_end = BUF_SIZE); while no send fails, the bytes written and the bytes
\* buffered are the strings passed to buffered_send() so far, in order, and
\* after the final flush the bytes written are all of them.
C24_WriteOnlyFullOrFinal ==
    (bpc \in {"sending", "sent", "failed"})
    => /\ \A j \in 1 .. Len(net.flushes) :
             (j < Len(net.flushes) \/ ~ tx.flushed) => net.flushes[j]
       /\ ~ conn.failed
          => net.wire \o conn.data = Flatten(SubSeq(tx.strs, 1, tx.k))
       /\ (tx.flushed /\ tx.ret)
          => (net.wire = Flatten(tx.strs) /\ conn.data = <<>>)

C24_Witness ==
    /\ bpc = "sent" /\ tx.ret
    /\ Len(net.wire) > MaxFill * BUF_SIZE
    /\ Len(net.flushes) = MaxFill + 1
    /\ net.wire = Flatten(tx.strs)

\* ============================================================== Part VI
\* A connection in any of its uses: sending the request, receiving the lines
\* of the response header, reading the body.
InitConn == InitSend \/ InitLine \/ InitBody

NextConn == NextSend \/ NextLine \/ NextBody

SpecConn == InitConn /\ [][NextConn]_vars

\* ------------------------------------------------------------- claims: connection
\* C23: in every state of a connection, through sends, flushes, refills, line
\* reads and body reads, 0 <= buf_begin <= buf_end <= BUF_SIZE.
C23_BufferIndicesInRange ==
    /\ 0 <= conn.buf_begin
    /\ conn.buf_begin <= conn.buf_end
    /\ conn.buf_end <= BUF_SIZE
    /\ Len(conn.data) = BUF_USED(conn)

\* The messages do_send() and do_recv() leave in last_error.
IOErrors == {"Send failed", "Receive failed"}

\* C22: once conn->failed is set it stays set; no step taken with the flag set
\* reads from or writes to the socket, and none issues a send() or recv();
\* last_error then holds the message of the I/O error and keeps it.
C22_FailedIsSticky ==
    [][ /\ conn.failed
           => /\ conn'.failed
              /\ net' = net
              /\ last_error' = last_error
        /\ conn'.failed => (~ net'.late /\ last_error' \in IOErrors) ]_vars

C22_Witness ==
    /\ conn.failed /\ last_error = "Receive failed"
    /\ bpc = "ready" /\ sawerr /\ rd.ret = -1 /\ rd.len > 0
    /\ net.data # <<>>

C23_Witness ==
    /\ bpc = "sending" /\ conn.buf_begin = 0 /\ conn.buf_end = BUF_SIZE
    /\ tx.k = Len(tx.strs) /\ net.wire = <<>>

\* ============================================================== Part VII
\* Handling the headers of the response: handle_header() and the handlers of
\* Content-Length and Transfer-Encoding, then the reading of the body.  The
\* lines are received whole (receiving is Part IV).

\* ------------------------------------------------------------- bounds: headers
\* Largest number of headers in a response.
MaxHeaders == 2

\* ------------------------------------------------------------- values: headers
\* sizeof(const char *) in the builds: 32-bit and 64-bit.
PointerSizes == {4, 8}

ContentLength ==
    <<"C", "o", "n", "t", "e", "n", "t", "-", "L", "e", "n", "g", "t", "h">>

TransferEncoding ==
    << "T", "r", "a", "n", "s", "f", "e", "r", "-",
       "E", "n", "c", "o", "d", "i", "n", "g" >>

chunked_str == <<"c", "h", "u", "n", "k", "e", "d">>

\* The headers a peer sends: Content-Length with a number and with something
\* else, Transfer-Encoding with chunked alone, as the last of two codings in
\* another case, and with another coding, and a header without a handler.
HeaderLines ==
    { [field |-> ContentLength, value |-> <<"3">>],
      [field |-> Lower(ContentLength), value |-> <<"x">>],
      [field |-> TransferEncoding, value |-> chunked_str],
      [field |-> Lower(TransferEncoding),
       value |-> <<"g", "z", "i", "p", ",", " ", "C", "h", "u", "n", "k", "E", "D">>],
      [field |-> TransferEncoding,
       value |-> <<"i", "d", "e", "n", "t", "i", "t", "y">>],
      [field |-> <<"X", "-", "a">>, value |-> <<"y">>] }

HeaderBlocks == UNION { [1 .. n -> HeaderLines] : n \in 0 .. MaxHeaders }

\* The body behind the header: three bytes sent as one chunk and the zero
\* chunk, or as they are.
HeaderPeers ==
    { [ chunked |-> 1, body_size |-> 0, payload |-> SubSeq(BodyBytes, 1, 3),
        wire |-> <<"3", CR, LF>> \o SubSeq(BodyBytes, 1, 3)
                 \o <<CR, LF, "0", CR, LF, CR, LF>>,
        shut |-> TRUE, complete |-> TRUE, truncated |-> FALSE,
        malformed |-> FALSE ],
      [ chunked |-> 0, body_size |-> 3, payload |-> SubSeq(BodyBytes, 1, 3),
        wire |-> SubSeq(BodyBytes, 1, 3),
        shut |-> TRUE, complete |-> TRUE, truncated |-> FALSE,
        malformed |-> FALSE ] }

\* ------------------------------------------------------------- the handlers
\* The handlers give [ok, b, err]: b the response's body fields.
handle_content_length_header(str, b) ==
    IF b.chunked = 1 THEN [ok |-> TRUE, b |-> b, err |-> ""]
    ELSE IF parse_size(str, 10) < 0
    THEN [ok |-> FALSE, b |-> b,
          err |-> "Failed to parse `Content-Length' header"]
    ELSE [ ok |-> TRUE, b |-> [b EXCEPT !.body_size = parse_size(str, 10)],
           err |-> "" ]

\* chunked_str is a pointer, and chunked_strlen is sizeof(chunked_str) - 1.
handle_transfer_encoding_header(str, b, ptr) ==
    LET chunked_strlen == ptr - 1
        len == Len(str)
    IN  IF /\ len >= chunked_strlen
           /\ strcasecmp(SubSeq(str, len - chunked_strlen + 1, len),
                         chunked_str) = 0
        THEN [ ok |-> TRUE, b |-> [b EXCEPT !.chunked = 1, !.body_size = 0],
               err |-> "" ]
        ELSE [ok |-> TRUE, b |-> b, err |-> ""]

\* handle_header(): the first handler whose field matches; a header without
\* one is accepted.  (The block has no Content-Range and no Location.)
handle_header(field, value, b, ptr) ==
    IF strcasecmp(ContentLength, field) = 0
    THEN handle_content_length_header(value, b)
    ELSE IF strcasecmp(TransferEncoding, field) = 0
    THEN handle_transfer_encoding_header(value, b, ptr)
    ELSE [ok |-> TRUE, b |-> b, err |-> ""]

\* ------------------------------------------------------------- actions: headers
\* recv_response() has parsed the status line of a response with one of the
\* header blocks, in one of the builds.
InitHeaders ==
    /\ pc = "headers"
    /\ info = http_request_info(HostA, -1, NULL, FALSE, 0, NoRange)
    /\ i = info
    /\ url = NullUrl
    /\ resp = NoResponse
    /\ ret = FALSE
    /\ last_error = ""
    /\ nattempts = 0
    /\ lastreq = NoRequest
    /\ lastsrv = NoServer
    /\ lastret = FALSE
    /\ all3xx = TRUE
    /\ redir = NoRedirect
    /\ live = NoneLive
    /\ bpc = "handling"
    /\ conn = NoConnection
    /\ body = NoBody
    /\ out = <<>>
    /\ rd = NoRead
    /\ sawerr = FALSE
    /\ hdr = NoHeader
    /\ tx = NoSend
    /\ \E blk \in HeaderBlocks, ptr \in PointerSizes :
         hb = [NoBlock EXCEPT !.block = blk, !.ptr = ptr]
    /\ peer \in HeaderPeers
    /\ peer.chunked = 1
       <=> \E k \in DOMAIN hb.block :
             /\ hb.block[k].field \in {TransferEncoding, Lower(TransferEncoding)}
             /\ hb.block[k].value[Len(hb.block[k].value)] \in {"d", "D"}
    /\ net = Socket(peer.wire, peer.shut)

\* One iteration of recv_response()'s header loop with a header line: the
\* line is handled; on failure the reason string is freed and
\* __http_simple_request() destroys the response.
HandleHeader ==
    /\ bpc = "handling"
    /\ hb.k < Len(hb.block)
    /\ LET h == hb.block[hb.k + 1]
           r == handle_header(h.field, h.value, body, hb.ptr)
       IN  /\ body' = r.b
           /\ last_error' = IF r.ok THEN last_error ELSE r.err
           /\ bpc' \in IF r.ok THEN {"handling"} ELSE after_err_hdrs
    /\ hb' = [hb EXCEPT !.k = @ + 1]
    /\ UNCHANGED << conn, net, out, rd, sawerr, peer, hdr, tx >>
    /\ UNCHANGED chase_rest

\* The empty line behind the last header: recv_response() returns true and
\* __http_simple_request() goes on to the body.
EndOfHeaders ==
    /\ bpc = "handling"
    /\ hb.k = Len(hb.block)
    /\ bpc' = "headers"
    /\ hb' = [hb EXCEPT !.done = TRUE]
    /\ UNCHANGED << conn, net, body, out, rd, sawerr, peer, hdr, tx,
                    last_error >>
    /\ UNCHANGED chase_rest

NextHeaders == HandleHeader \/ EndOfHeaders

SpecHeaders == InitHeaders /\ [][NextHeaders \/ NextBody]_vars

\* ------------------------------------------------------------- claims: headers
\* The value ends in "chunked", in any case.
EndsInChunked(v) ==
    /\ Len(v) >= 7
    /\ Lower(SubSeq(v, Len(v) - 6, Len(v)))
         = <<"c", "h", "u", "n", "k", "e", "d">>

HasChunkedTE(blk) ==
    \E k \in DOMAIN blk :
      /\ Lower(blk[k].field) = Lower(TransferEncoding)
      /\ EndsInChunked(blk[k].value)

HasContentLength(blk) ==
    \E k \in DOMAIN blk : Lower(blk[k].field) = Lower(ContentLength)

\* C26 (as claimed): when the header block has a Transfer-Encoding header
\* whose value ends in "chunked" and a Content-Length header, in either
\* order, the parsed response has chunked = 1 and body_size = 0 from then on,
\* and the bytes read from its body are the chunks' bytes.
C26_ChunkedTakesPrecedence ==
    (hb.done /\ HasChunkedTE(hb.block) /\ HasContentLength(hb.block))
    => /\ body.chunked = 1
       /\ body.body_size = 0
       /\ out = SubSeq(peer.payload, 1, Len(out))

====
